---- MODULE Spec2Model ----
(***************************************************************************)
(* Model of the Mercury repository analysis service:                       *)
(*   RepositoryService (snapshot cache, stack / dependency / build-config  *)
(*   analysis, requirements, strategy) and MCPHandler (tool dispatch).     *)
(*                                                                         *)
(* Text is modelled as a sequence of one-character strings, so that the    *)
(* line-oriented parsers are computed character by character as the code   *)
(* computes them.                                                          *)
(***************************************************************************)
EXTENDS Integers, Sequences, FiniteSets, TLC

VARIABLES
    reqText,        \* content of requirements.txt handed to the parser
    reqPc,          \* "ready" | "parsed"
    reqDeps,        \* DependencyInfo[] produced from requirements.txt
    snapshot,           \* the snapshot directory analyzeRepository reads
    anPc,           \* analyzeRepository: "ready" | "running" | "returned" | "threw"
    leaf,           \* per leaf analysis of Promise.all: "pending" | "done" | "threw"
    stackResult,      \* result of detectTechStack
    depsResult,   \* result of analyzeDependencies
    buildResult,    \* result of analyzeBuildConfiguration
    anResult,       \* the RepositoryAnalysis object returned, as it is now
    earlier,        \* a RepositoryAnalysis as analyzeRepository returned it earlier
    tool,           \* handleToolCall: toolName
    args,           \* handleToolCall: args
    tcPc,           \* handleToolCall: position of the call
    performed,      \* collaborator steps performed so far during the call
    failure,        \* messages of the collaborator failures raised during the call
    outcome,        \* settlement of the tool method awaited by handleToolCall
    result,         \* the record handleToolCall returned
    clock,          \* Date.now(), in milliseconds
    gitCwd,         \* working directory of the one simple-git client (this.git)
    dirs,           \* cache directory: per local path, whether it exists, its mtime and branch
    calls           \* the cloneOrUpdateRepository calls in flight

varsReq == <<reqText, reqPc, reqDeps>>

varsAn == <<snapshot, anPc, leaf, stackResult, depsResult, buildResult, anResult, earlier>>

varsTool == <<tool, args, tcPc, performed, failure, outcome, result>>

varsCache == <<clock, gitCwd, dirs, calls>>

vars == <<reqText, reqPc, reqDeps,
          snapshot, anPc, leaf, stackResult, depsResult, buildResult, anResult, earlier,
          tool, args, tcPc, performed, failure, outcome, result,
          clock, gitCwd, dirs, calls>>

----------------------------------------------------------------------------
(* Bounds *)

MaxTextLen == 4      \* longest enumerated requirements.txt content
MaxEntries == 1      \* most entries enumerated per dependency map of package.json
MaxExposed == 3      \* most tokens enumerated on an EXPOSE line
MaxClockHours == 1   \* the clock is observed up to this many hours after the start

----------------------------------------------------------------------------
(* JavaScript string primitives *)

WhiteSpace == {" ", "\n", "\t", "\r"}

RECURSIVE TrimStart(_)
TrimStart(s) ==
    IF s # <<>> /\ Head(s) \in WhiteSpace THEN TrimStart(Tail(s)) ELSE s

RECURSIVE TrimEnd(_)
TrimEnd(s) ==
    IF s # <<>> /\ s[Len(s)] \in WhiteSpace
    THEN TrimEnd(SubSeq(s, 1, Len(s) - 1))
    ELSE s

\* String.prototype.trim
Trim(s) == TrimEnd(TrimStart(s))

\* String.prototype.startsWith
StartsWith(s, p) == Len(s) >= Len(p) /\ SubSeq(s, 1, Len(p)) = p

\* String.prototype.indexOf, 1-based; 0 when sub does not occur
IndexOf(s, sub) ==
    LET hits == {i \in 1..(Len(s) - Len(sub) + 1) : SubSeq(s, i, i + Len(sub) - 1) = sub}
    IN IF hits = {} THEN 0 ELSE CHOOSE i \in hits : \A j \in hits : i <= j

\* String.prototype.includes
Includes(s, sub) == IndexOf(s, sub) # 0

\* position of the first character of s that is in the class cls; 0 when none
IndexOfAny(s, cls) ==
    LET hits == {i \in 1..Len(s) : s[i] \in cls}
    IN IF hits = {} THEN 0 ELSE CHOOSE i \in hits : \A j \in hits : i <= j

\* String.prototype.split with a non-empty string separator
RECURSIVE SplitStr(_, _)
SplitStr(s, sep) ==
    LET i == IndexOf(s, sep)
    IN IF i = 0 THEN <<s>>
       ELSE <<SubSeq(s, 1, i - 1)>> \o SplitStr(SubSeq(s, i + Len(sep), Len(s)), sep)

\* String.prototype.split with a one-character class regex such as /[>=<~]/
RECURSIVE SplitClass(_, _)
SplitClass(s, cls) ==
    LET i == IndexOfAny(s, cls)
    IN IF i = 0 THEN <<s>>
       ELSE <<SubSeq(s, 1, i - 1)>> \o SplitClass(SubSeq(s, i + 1, Len(s)), cls)

Range(seq) == {seq[i] : i \in 1..Len(seq)}

\* all sequences over S of length 0..n
SeqsUpTo(S, n) == UNION {[1..k -> S] : k \in 0..n}

----------------------------------------------------------------------------
(* Literals *)

\* the texts the code compares with, by name
Str ==
    [latest |-> <<"l", "a", "t", "e", "s", "t">>,
     flask |-> <<"f", "l", "a", "s", "k">>,
     react |-> <<"r", "e", "a", "c", "t">>,
     types_react |-> <<"@", "t", "y", "p", "e", "s", "/", "r", "e", "a", "c", "t">>,
     vue |-> <<"v", "u", "e">>,
     angular |-> <<"a", "n", "g", "u", "l", "a", "r">>,
     angular_core |-> <<"@", "a", "n", "g", "u", "l", "a", "r", "/", "c", "o", "r", "e">>,
     next |-> <<"n", "e", "x", "t">>,
     nuxt |-> <<"n", "u", "x", "t">>,
     express |-> <<"e", "x", "p", "r", "e", "s", "s">>,
     fastify |-> <<"f", "a", "s", "t", "i", "f", "y">>,
     nestjs |-> <<"n", "e", "s", "t", "j", "s">>,
     nestjs_core |-> <<"@", "n", "e", "s", "t", "j", "s", "/", "c", "o", "r", "e">>,
     webpack |-> <<"w", "e", "b", "p", "a", "c", "k">>,
     vite |-> <<"v", "i", "t", "e">>,
     rollup |-> <<"r", "o", "l", "l", "u", "p">>,
     parcel |-> <<"p", "a", "r", "c", "e", "l">>,
     jest |-> <<"j", "e", "s", "t">>,
     mocha |-> <<"m", "o", "c", "h", "a">>,
     vitest |-> <<"v", "i", "t", "e", "s", "t">>,
     cypress |-> <<"c", "y", "p", "r", "e", "s", "s">>,
     typescript |-> <<"t", "y", "p", "e", "s", "c", "r", "i", "p", "t">>,
     types_node |-> <<"@", "t", "y", "p", "e", "s", "/", "n", "o", "d", "e">>,
     pm2 |-> <<"p", "m", "2">>,
     django |-> <<"d", "j", "a", "n", "g", "o">>,
     fastapi |-> <<"f", "a", "s", "t", "a", "p", "i">>,
     tornado |-> <<"t", "o", "r", "n", "a", "d", "o">>,
     rails |-> <<"r", "a", "i", "l", "s">>,
     sinatra |-> <<"s", "i", "n", "a", "t", "r", "a">>,
     gin_gonic |-> <<"g", "i", "n", "-", "g", "o", "n", "i", "c">>,
     echo |-> <<"e", "c", "h", "o">>,
     fiber |-> <<"f", "i", "b", "e", "r">>,
     laravel |-> <<"l", "a", "r", "a", "v", "e", "l", "/", "f", "r", "a", "m", "e", "w", "o", "r", "k">>,
     symfony |-> <<"s", "y", "m", "f", "o", "n", "y", "/", "s", "y", "m", "f", "o", "n", "y">>,
     codeigniter |-> <<"c", "o", "d", "e", "i", "g", "n", "i", "t", "e", "r", "/", "f", "r", "a", "m", "e", "w", "o", "r", "k">>,
     FROM |-> <<"F", "R", "O", "M", " ">>,
     EXPOSE |-> <<"E", "X", "P", "O", "S", "E", " ">>,
     WORKDIR |-> <<"W", "O", "R", "K", "D", "I", "R", " ">>,
     HEALTHCHECK |-> <<"H", "E", "A", "L", "T", "H", "C", "H", "E", "C", "K", " ">>,
     as |-> <<" ", "a", "s", " ">>,
     password |-> <<"p", "a", "s", "s", "w", "o", "r", "d">>,
     secret |-> <<"s", "e", "c", "r", "e", "t">>,
     key |-> <<"k", "e", "y">>,
     mysql |-> <<"m", "y", "s", "q", "l">>,
     mysql2 |-> <<"m", "y", "s", "q", "l", "2">>,
     pg |-> <<"p", "g">>,
     postgres |-> <<"p", "o", "s", "t", "g", "r", "e", "s">>,
     mongodb |-> <<"m", "o", "n", "g", "o", "d", "b">>,
     mongoose |-> <<"m", "o", "n", "g", "o", "o", "s", "e">>,
     redis |-> <<"r", "e", "d", "i", "s">>,
     sqlite3 |-> <<"s", "q", "l", "i", "t", "e", "3">>,
     postgresql |-> <<"p", "o", "s", "t", "g", "r", "e", "s", "q", "l">>,
     mongo |-> <<"m", "o", "n", "g", "o">>,
     sqlite |-> <<"s", "q", "l", "i", "t", "e">>,
     mem512MB |-> <<"5", "1", "2", "M", "B">>,
     mem1GB |-> <<"1", "G", "B">>,
     mem2GB |-> <<"2", "G", "B">>,
     mem4GB |-> <<"4", "G", "B">>,
     dot_git |-> <<".", "g", "i", "t">>]

\* contents of the files of the snapshots analysed
Text ==
    [version1 |-> <<"^", "1">>,
     npm |-> <<"n", "p", "m">>,
     flask |-> <<"f", "l", "a", "s", "k", "=", "=", "2", ".", "0", ".", "1">>,
     django |-> <<"d", "j", "a", "n", "g", "o", ">", "=", "3", "\n", "r", "e", "d", "i", "s">>,
     rails |-> <<"g", "e", "m", " ", "'", "r", "a", "i", "l", "s", "'">>,
     gin |-> <<"g", "i", "n", "-", "g", "o", "n", "i", "c", "/", "g", "i", "n">>,
     node18 |-> <<"F", "R", "O", "M", " ", "n", "o", "d", "e", ":", "1", "8", "\n", "E", "X", "P", "O", "S", "E", " ", "3", "0", "0", "0", "\n", "W", "O", "R", "K", "D", "I", "R", " ", "/", "a", "p", "p">>,
     multistage |-> <<"F", "R", "O", "M", " ", "a", " ", "a", "s", " ", "b", "\n", "F", "R", "O", "M", " ", "c", "\n", "E", "X", "P", "O", "S", "E", " ", "8", "0", " ", "8", "0", "8", "0", "\n", "H", "E", "A", "L", "T", "H", "C", "H", "E", "C", "K", " ", "x">>,
     env |-> <<"A", "P", "I", "_", "K", "E", "Y", "=", "\n", "P", "O", "R", "T", "=", "1">>,
     envdefaults |-> <<"#", "c", "\n", "D", "B", "_", "P", "A", "S", "S", "W", "O", "R", "D", "=", "a", "=", "b", "\n", "N", "A", "M", "E">>]

----------------------------------------------------------------------------
(* RepositoryService.analyzeDependencies, requirements.txt part *)

\* the regex class /[>=<~]/ of line 847
OperatorChars == {">", "=", "<", "~"}

\* filter(line => line.trim() && !line.startsWith('#'))
RECURSIVE FilterRequirementLines(_)
FilterRequirementLines(lines) ==
    IF lines = <<>> THEN <<>>
    ELSE (IF Trim(Head(lines)) # <<>> /\ ~StartsWith(Head(lines), <<"#">>)
          THEN <<Head(lines)>> ELSE <<>>)
         \o FilterRequirementLines(Tail(lines))

\* const [name, version = ''] = line.split(/[>=<~]/)[0].split('==')
RECURSIVE RequirementDeps(_)
RequirementDeps(lines) ==
    IF lines = <<>> THEN <<>>
    ELSE LET line == Head(lines)
             parts == SplitStr(SplitClass(line, OperatorChars)[1], <<"=", "=">>)
             name == parts[1]
             version == IF Len(parts) >= 2 THEN parts[2] ELSE <<>>
         IN (IF Trim(name) # <<>>
             THEN <<[name |-> Trim(name),
                     version |-> IF Trim(version) # <<>> THEN Trim(version) ELSE Str.latest,
                     type |-> "production"]>>
             ELSE <<>>) \o RequirementDeps(Tail(lines))

\* file: [exists |-> BOOLEAN, text |-> characters]; readFileIfExists gives null
\* for a missing file and `if (requirementsTxt)` also skips the empty string
parseRequirements(file) ==
    IF ~file.exists \/ file.text = <<>> THEN <<>>
    ELSE RequirementDeps(FilterRequirementLines(SplitStr(file.text, <<"\n">>)))

----------------------------------------------------------------------------
(* Names looked up by the stack analyzers *)

\* a property that is missing (undefined) in a record
Undefined == "undefined"

----------------------------------------------------------------------------
(* Parsed JSON documents *)

\* A parsed package.json is modelled by its kind and, for an object, the
\* ordered entries of dependencies / devDependencies (name, version) and the
\* scripts.  kind: "unparsable" (readFile or JSON.parse throws), "null" (the
\* document `null`), "scalar" (a number, string or boolean: every property
\* read gives undefined), "object".
\* A script is its command text; <<>> stands for a missing or empty command.

EmptyObject ==
    [kind |-> "object", dependencies |-> <<>>, devDependencies |-> <<>>,
     hasScripts |-> FALSE, scripts |-> [build |-> <<>>, start |-> <<>>, test |-> <<>>]]

JsonOfKind(k) == [EmptyObject EXCEPT !.kind = k]

\* value of map[name] for an ordered entry list; Undefined when absent
Lookup(entries, name) ==
    IF \E i \in 1..Len(entries) : entries[i].name = name
    THEN (CHOOSE e \in Range(entries) : e.name = name).version
    ELSE <<"u", "n", "d", "e", "f">>

Has(entries, name) == \E i \in 1..Len(entries) : entries[i].name = name

\* { ...packageJson.dependencies, ...packageJson.devDependencies }[name] is truthy
MergedTruthy(packageJson, name) ==
    IF Has(packageJson.devDependencies, name)
    THEN Lookup(packageJson.devDependencies, name) # <<>>
    ELSE Has(packageJson.dependencies, name)
         /\ Lookup(packageJson.dependencies, name) # <<>>

----------------------------------------------------------------------------
(* RepositoryService: stack analyzers *)

NoStack ==
    [primary |-> Undefined, secondary |-> <<>>, framework |-> Undefined,
     language |-> Undefined, packageManager |-> Undefined, buildTool |-> Undefined,
     testing |-> <<>>, runtime |-> Undefined]

\* result of a call that may throw
Returned(v) == [threw |-> FALSE, value |-> v]
Thrown(v) == [threw |-> TRUE, value |-> v]

\* readJsonFile: throws when the file cannot be read or parsed
readJsonFile(json) ==
    IF json.kind = "unparsable" THEN Thrown(json) ELSE Returned(json)

\* readJsonFileIfExists: null when readJsonFile throws
readJsonFileIfExists(json) ==
    IF readJsonFile(json).threw THEN JsonOfKind("null") ELSE json

analyzeNodejsStack(packageJson) ==
    LET dep(n) == MergedTruthy(packageJson, n)
        framework ==
            IF dep(Str.react) \/ dep(Str.types_react) THEN "react"
            ELSE IF dep(Str.vue) THEN "vue"
            ELSE IF dep(Str.angular) \/ dep(Str.angular_core) THEN "angular"
            ELSE IF dep(Str.next) THEN "nextjs"
            ELSE IF dep(Str.nuxt) THEN "nuxt"
            ELSE IF dep(Str.express) THEN "express"
            ELSE IF dep(Str.fastify) THEN "fastify"
            ELSE IF dep(Str.nestjs) \/ dep(Str.nestjs_core) THEN "nestjs"
            ELSE "none"
        buildTools ==
            (IF dep(Str.webpack) THEN <<"webpack">> ELSE <<>>)
            \o (IF dep(Str.vite) THEN <<"vite">> ELSE <<>>)
            \o (IF dep(Str.rollup) THEN <<"rollup">> ELSE <<>>)
            \o (IF dep(Str.parcel) THEN <<"parcel">> ELSE <<>>)
        testingFrameworks ==
            (IF dep(Str.jest) THEN <<"jest">> ELSE <<>>)
            \o (IF dep(Str.mocha) THEN <<"mocha">> ELSE <<>>)
            \o (IF dep(Str.vitest) THEN <<"vitest">> ELSE <<>>)
            \o (IF dep(Str.cypress) THEN <<"cypress">> ELSE <<>>)
    IN IF packageJson.kind = "null"
       THEN Thrown(NoStack)    \* TypeError: cannot read properties of null
       ELSE Returned(
            [primary |-> "javascript",
             secondary |-> buildTools,
             framework |-> framework,
             language |-> IF dep(Str.typescript) \/ dep(Str.types_node)
                          THEN "typescript" ELSE "javascript",
             packageManager |-> "npm",
             buildTool |-> IF buildTools = <<>> THEN Undefined ELSE buildTools[1],
             testing |-> testingFrameworks,
             runtime |-> "nodejs"])

\* text of a file as readFileIfExists returns it; missing and empty are both
\* falsy, so both are <<>>
FileText(repo, f) == IF f \in repo.files THEN repo.text[f] ELSE <<>>

analyzePythonStack(repo) ==
    LET requirementsContent == FileText(repo, "requirements.txt")
        byContent ==
            IF requirementsContent = <<>> THEN "none"
            ELSE IF Includes(requirementsContent, Str.django) THEN "django"
            ELSE IF Includes(requirementsContent, Str.flask) THEN "flask"
            ELSE IF Includes(requirementsContent, Str.fastapi) THEN "fastapi"
            ELSE IF Includes(requirementsContent, Str.tornado) THEN "tornado"
            ELSE "none"
    IN [primary |-> "python",
        secondary |-> <<>>,
        framework |-> IF "manage.py" \in repo.files THEN "django" ELSE byContent,
        language |-> "python",
        packageManager |-> IF "pyproject.toml" \in repo.files THEN "poetry" ELSE "pip",
        buildTool |-> Undefined,
        testing |-> <<>>,
        runtime |-> "python"]

analyzeRubyStack(repo) ==
    LET gemfileContent == FileText(repo, "Gemfile")
    IN [primary |-> "ruby",
        secondary |-> <<>>,
        framework |-> IF gemfileContent = <<>> THEN "none"
                      ELSE IF Includes(gemfileContent, Str.rails) THEN "rails"
                      ELSE IF Includes(gemfileContent, Str.sinatra) THEN "sinatra"
                      ELSE "none",
        language |-> "ruby",
        packageManager |-> "bundler",
        buildTool |-> Undefined,
        testing |-> <<>>,
        runtime |-> "ruby"]

analyzeGoStack(repo) ==
    LET goModContent == FileText(repo, "go.mod")
        frameworks ==
            IF goModContent = <<>> THEN <<>>
            ELSE (IF Includes(goModContent, Str.gin_gonic) THEN <<"gin">> ELSE <<>>)
                 \o (IF Includes(goModContent, Str.echo) THEN <<"echo">> ELSE <<>>)
                 \o (IF Includes(goModContent, Str.fiber) THEN <<"fiber">> ELSE <<>>)
    IN [primary |-> "go",
        secondary |-> frameworks,
        framework |-> IF frameworks = <<>> THEN "none" ELSE frameworks[1],
        language |-> "go",
        packageManager |-> "go mod",
        buildTool |-> Undefined,
        testing |-> <<>>,
        runtime |-> "go"]

analyzeJavaStack ==
    [primary |-> "java", secondary |-> <<>>, framework |-> "spring",
     language |-> "java", packageManager |-> "maven", buildTool |-> Undefined,
     testing |-> <<>>, runtime |-> "jvm"]

analyzeRustStack ==
    [primary |-> "rust", secondary |-> <<>>, framework |-> "none",
     language |-> "rust", packageManager |-> "cargo", buildTool |-> Undefined,
     testing |-> <<>>, runtime |-> "native"]

\* composer.json is modelled by the entries of its `require` map (kept in
\* `dependencies`); an unparsable or null document gives no framework
analyzePHPStack(repo) ==
    LET composerContent == readJsonFileIfExists(repo.composerJson)
        req(n) == /\ composerContent.kind = "object"
                  /\ Has(composerContent.dependencies, n)
                  /\ Lookup(composerContent.dependencies, n) # <<>>
    IN [primary |-> "php",
        secondary |-> <<>>,
        framework |-> IF req(Str.laravel) THEN "laravel"
                      ELSE IF req(Str.symfony) THEN "symfony"
                      ELSE IF req(Str.codeigniter) THEN "codeigniter"
                      ELSE "none",
        language |-> "php",
        packageManager |-> "composer",
        buildTool |-> Undefined,
        testing |-> <<>>,
        runtime |-> "php"]

detectByCommonFiles(repo) ==
    IF repo.html
    THEN [NoStack EXCEPT !.primary = "static", !.language = "html", !.runtime = "static"]
    ELSE [NoStack EXCEPT !.primary = "unknown", !.language = "unknown", !.runtime = "unknown"]

\* detectTechStack with the Python branch tried before the Node.js branch
detectTechStack_PythonFirst(repo) ==
    IF \/ "requirements.txt" \in repo.files
       \/ "app.py" \in repo.files
       \/ "main.py" \in repo.files
    THEN Returned(analyzePythonStack(repo))
    ELSE IF "package.json" \in repo.files
    THEN (IF readJsonFile(repo.packageJson).threw
          THEN Thrown(NoStack)
          ELSE analyzeNodejsStack(repo.packageJson))
    ELSE Returned(detectByCommonFiles(repo))

\* detectTechStack with the Ruby branch tried before the Python branch
detectTechStack_RubyBeforePython(repo) ==
    IF "package.json" \in repo.files
    THEN (IF readJsonFile(repo.packageJson).threw
          THEN Thrown(NoStack)
          ELSE analyzeNodejsStack(repo.packageJson))
    ELSE IF "Gemfile" \in repo.files THEN Returned(analyzeRubyStack(repo))
    ELSE IF \/ "requirements.txt" \in repo.files
            \/ "app.py" \in repo.files
            \/ "main.py" \in repo.files
    THEN Returned(analyzePythonStack(repo))
    ELSE IF "go.mod" \in repo.files THEN Returned(analyzeGoStack(repo))
    ELSE IF "pom.xml" \in repo.files THEN Returned(analyzeJavaStack)
    ELSE IF "Cargo.toml" \in repo.files THEN Returned(analyzeRustStack)
    ELSE IF "composer.json" \in repo.files THEN Returned(analyzePHPStack(repo))
    ELSE Returned(detectByCommonFiles(repo))

detectTechStack(repo) ==
    IF "package.json" \in repo.files
    THEN (IF readJsonFile(repo.packageJson).threw
          THEN Thrown(NoStack)       \* Error: Could not read JSON file
          ELSE analyzeNodejsStack(repo.packageJson))
    ELSE IF \/ "requirements.txt" \in repo.files
            \/ "app.py" \in repo.files
            \/ "main.py" \in repo.files
    THEN Returned(analyzePythonStack(repo))
    ELSE IF "Gemfile" \in repo.files THEN Returned(analyzeRubyStack(repo))
    ELSE IF "go.mod" \in repo.files THEN Returned(analyzeGoStack(repo))
    ELSE IF "pom.xml" \in repo.files THEN Returned(analyzeJavaStack)
    ELSE IF "Cargo.toml" \in repo.files THEN Returned(analyzeRustStack)
    ELSE IF "composer.json" \in repo.files THEN Returned(analyzePHPStack(repo))
    ELSE Returned(detectByCommonFiles(repo))

----------------------------------------------------------------------------
(* More JavaScript primitives: case, numbers *)

UpperCase == <<"A", "B", "C", "D", "E", "F", "G", "H", "I", "J", "K", "L", "M", "N", "O", "P", "Q", "R", "S", "T", "U", "V", "W", "X", "Y", "Z">>
LowerCase == <<"a", "b", "c", "d", "e", "f", "g", "h", "i", "j", "k", "l", "m", "n", "o", "p", "q", "r", "s", "t", "u", "v", "w", "x", "y", "z">>

\* String.prototype.toLowerCase
ToLowerCase(s) ==
    [i \in 1..Len(s) |->
        IF \E k \in 1..Len(UpperCase) : UpperCase[k] = s[i]
        THEN LowerCase[CHOOSE k \in 1..Len(UpperCase) : UpperCase[k] = s[i]]
        ELSE s[i]]

DigitChars == <<"0", "1", "2", "3", "4", "5", "6", "7", "8", "9">>

IsDigit(c) == \E i \in 1..10 : DigitChars[i] = c

DigitValue(c) == (CHOOSE i \in 1..10 : DigitChars[i] = c) - 1

\* value of a non-empty run of decimal digits
RECURSIVE DigitsValue(_)
DigitsValue(ds) ==
    IF ds = <<>> THEN 0
    ELSE DigitsValue(SubSeq(ds, 1, Len(ds) - 1)) * 10 + DigitValue(ds[Len(ds)])

\* Number.prototype.toString for a natural number
RECURSIVE NatToString(_)
NatToString(n) ==
    IF n < 10 THEN <<DigitChars[n + 1]>>
    ELSE NatToString(n \div 10) \o <<DigitChars[(n % 10) + 1]>>

\* length of the run of digits at the head of s
RECURSIVE DigitRunLen(_)
DigitRunLen(s) ==
    IF s # <<>> /\ IsDigit(Head(s)) THEN 1 + DigitRunLen(Tail(s)) ELSE 0

\* parseInt(s): leading white space, an optional sign, then the longest run of
\* decimal digits; NaN when there is no digit.  [nan, value]
ParseInt(s) ==
    LET t == TrimStart(s)
        signed == t # <<>> /\ Head(t) \in {"-", "+"}
        body == IF signed THEN Tail(t) ELSE t
        n == DigitRunLen(body)
        magnitude == DigitsValue(SubSeq(body, 1, n))
    IN IF n = 0 THEN [nan |-> TRUE, value |-> 0]
       ELSE [nan |-> FALSE,
             value |-> IF signed /\ Head(t) = "-" THEN 0 - magnitude ELSE magnitude]

\* s.replace(/\d+/, m => (parseInt(m) * num / den).toString()), for a factor
\* num/den whose product with an integer is an integer or ends in .5
ScaleFirstNumber(s, num, den) ==
    LET hits == {i \in 1..Len(s) : IsDigit(s[i])}
        i == CHOOSE k \in hits : \A j \in hits : k <= j
        n == DigitRunLen(SubSeq(s, i, Len(s)))
        scaled == DigitsValue(SubSeq(s, i, i + n - 1)) * num
        text == IF scaled % den = 0 THEN NatToString(scaled \div den)
                ELSE NatToString(scaled \div den) \o <<".", "5">>
    IN IF hits = {} THEN s
       ELSE SubSeq(s, 1, i - 1) \o text \o SubSeq(s, i + n, Len(s))

\* the array copied without passing through a Set
Dedupe_Copy(xs) == xs

\* [...new Set(xs)]: first occurrences, in order
RECURSIVE Dedupe(_)
Dedupe(xs) ==
    IF xs = <<>> THEN <<>>
    ELSE LET init == Dedupe(SubSeq(xs, 1, Len(xs) - 1))
             last == xs[Len(xs)]
         IN IF last \in Range(init) THEN init ELSE Append(init, last)

----------------------------------------------------------------------------
(* More literals *)

----------------------------------------------------------------------------
(* RepositoryService.analyzeDependencies *)

RECURSIVE EntriesAsDeps(_, _)
EntriesAsDeps(entries, type) ==
    IF entries = <<>> THEN <<>>
    ELSE <<[name |-> Head(entries).name, version |-> Head(entries).version, type |-> type]>>
         \o EntriesAsDeps(Tail(entries), type)

analyzeDependencies(repo) ==
    LET packageJson == IF "package.json" \in repo.files
                       THEN readJsonFileIfExists(repo.packageJson)
                       ELSE JsonOfKind("null")
        node == IF packageJson.kind = "object"
                THEN EntriesAsDeps(packageJson.dependencies, "production")
                     \o EntriesAsDeps(packageJson.devDependencies, "development")
                ELSE <<>>
    IN node \o parseRequirements([exists |-> "requirements.txt" \in repo.files,
                                  text |-> FileText(repo, "requirements.txt")])

----------------------------------------------------------------------------
(* RepositoryService.analyzeBuildConfiguration *)

NoDockerfileAnalysis ==
    [defined |-> FALSE, baseImage |-> <<>>, hasBaseImage |-> FALSE,
     exposedPorts |-> <<>>, workdir |-> <<>>, hasWorkdir |-> FALSE,
     multiStage |-> FALSE, healthcheck |-> FALSE]

\* ports.map(p => parseInt(p)).filter(p => !isNaN(p))
RECURSIVE ParsePorts(_)
ParsePorts(tokens) ==
    IF tokens = <<>> THEN <<>>
    ELSE (IF ParseInt(Head(tokens)).nan THEN <<>> ELSE <<ParseInt(Head(tokens)).value>>)
         \o ParsePorts(Tail(tokens))

\* one iteration of the loop of analyzeDockerfile
DockerfileLine(analysis, line, content) ==
    LET trimmed == Trim(line)
    IN IF StartsWith(trimmed, Str.FROM)
       THEN [analysis EXCEPT
                !.baseImage = SplitStr(trimmed, <<" ">>)[2],
                !.hasBaseImage = TRUE,
                !.multiStage = \/ analysis.multiStage
                               \/ Includes(trimmed, Str.as)
                               \/ Len(SplitStr(content, Str.FROM)) > 2]
       ELSE IF StartsWith(trimmed, Str.EXPOSE)
       THEN [analysis EXCEPT
                !.exposedPorts = analysis.exposedPorts
                    \o ParsePorts(SplitStr(SubSeq(trimmed, Len(Str.EXPOSE) + 1, Len(trimmed)),
                                           <<" ">>))]
       ELSE IF StartsWith(trimmed, Str.WORKDIR)
       THEN [analysis EXCEPT
                !.workdir = SubSeq(trimmed, Len(Str.WORKDIR) + 1, Len(trimmed)),
                !.hasWorkdir = TRUE]
       ELSE IF StartsWith(trimmed, Str.HEALTHCHECK)
       THEN [analysis EXCEPT !.healthcheck = TRUE]
       ELSE analysis

RECURSIVE DockerfileLines(_, _, _)
DockerfileLines(analysis, lines, content) ==
    IF lines = <<>> THEN analysis
    ELSE DockerfileLines(DockerfileLine(analysis, Head(lines), content), Tail(lines), content)

analyzeDockerfile(content) ==
    DockerfileLines([NoDockerfileAnalysis EXCEPT !.defined = TRUE],
                    SplitStr(content, <<"\n">>), content)

\* the words of the naming test looked for in the name as written
EnvironmentVariableOf_CaseSensitive(line) ==
    LET parts == SplitStr(line, <<"=">>)
        name == parts[1]
        lower == name
    IN IF Trim(line) # <<>> /\ ~StartsWith(line, <<"#">>) /\ name # <<>>
       THEN <<[name |-> Trim(name),
               required |-> TRUE,
               hasDefault |-> Len(parts) >= 2,
               defaultValue |-> IF Len(parts) >= 2 THEN Trim(parts[2]) ELSE <<>>,
               sensitive |-> \/ Includes(lower, Str.password)
                             \/ Includes(lower, Str.secret)
                             \/ Includes(lower, Str.key)]>>
       ELSE <<>>

\* one line of .env.example; <<>> when the line gives no variable
EnvironmentVariableOf(line) ==
    LET parts == SplitStr(line, <<"=">>)
        name == parts[1]
        lower == ToLowerCase(name)
    IN IF Trim(line) # <<>> /\ ~StartsWith(line, <<"#">>) /\ name # <<>>
       THEN <<[name |-> Trim(name),
               required |-> TRUE,
               hasDefault |-> Len(parts) >= 2,
               defaultValue |-> IF Len(parts) >= 2 THEN Trim(parts[2]) ELSE <<>>,
               sensitive |-> \/ Includes(lower, Str.password)
                             \/ Includes(lower, Str.secret)
                             \/ Includes(lower, Str.key)]>>
       ELSE <<>>

RECURSIVE EnvironmentVariablesOf(_)
EnvironmentVariablesOf(lines) ==
    IF lines = <<>> THEN <<>>
    ELSE EnvironmentVariableOf(Head(lines)) \o EnvironmentVariablesOf(Tail(lines))

findEnvironmentVariables(repo) ==
    LET envExample == FileText(repo, ".env.example")
    IN IF envExample = <<>> THEN <<>>
       ELSE EnvironmentVariablesOf(SplitStr(envExample, <<"\n">>))

analyzeBuildConfiguration(repo) ==
    LET dockerfile == "Dockerfile" \in repo.files
        packageJson == IF "package.json" \in repo.files
                       THEN readJsonFileIfExists(repo.packageJson)
                       ELSE JsonOfKind("null")
        scripts == packageJson.kind = "object" /\ packageJson.hasScripts
        dockerfileContent == FileText(repo, "Dockerfile")
    IN [hasDockerfile |-> dockerfile,
        dockerfileAnalysis |-> IF dockerfile /\ dockerfileContent # <<>>
                               THEN analyzeDockerfile(dockerfileContent)
                               ELSE NoDockerfileAnalysis,
        buildScript |-> IF scripts THEN packageJson.scripts.build ELSE <<>>,
        startScript |-> IF scripts THEN packageJson.scripts.start ELSE <<>>,
        testScript |-> IF scripts THEN packageJson.scripts.test ELSE <<>>,
        environmentVariables |-> findEnvironmentVariables(repo)]

----------------------------------------------------------------------------
(* RepositoryService.calculateDeploymentRequirements *)

\* the table looked up with the name as declared
ServiceOf_CaseSensitive(dep) ==
    LET name == dep.name
        databases == {Str.mysql, Str.mysql2, Str.pg, Str.postgres, Str.mongodb,
                      Str.mongoose, Str.redis, Str.sqlite3}
    IN IF name \in databases
       THEN <<[name |-> IF Includes(name, Str.mysql) THEN Str.mysql
                        ELSE IF Includes(name, Str.pg) \/ Includes(name, Str.postgres)
                             THEN Str.postgresql
                        ELSE IF Includes(name, Str.mongo) THEN Str.mongodb
                        ELSE IF Includes(name, Str.redis) THEN Str.redis
                        ELSE IF Includes(name, Str.sqlite) THEN Str.sqlite
                        ELSE name,
               type |-> IF Includes(name, Str.redis) THEN "cache" ELSE "database",
               required |-> dep.type = "production"]>>
       ELSE <<>>

\* the body of the loop of lines 1000-1018
ServiceOf(dep) ==
    LET name == ToLowerCase(dep.name)
        databases == {Str.mysql, Str.mysql2, Str.pg, Str.postgres, Str.mongodb,
                      Str.mongoose, Str.redis, Str.sqlite3}
    IN IF name \in databases
       THEN <<[name |-> IF Includes(name, Str.mysql) THEN Str.mysql
                        ELSE IF Includes(name, Str.pg) \/ Includes(name, Str.postgres)
                             THEN Str.postgresql
                        ELSE IF Includes(name, Str.mongo) THEN Str.mongodb
                        ELSE IF Includes(name, Str.redis) THEN Str.redis
                        ELSE IF Includes(name, Str.sqlite) THEN Str.sqlite
                        ELSE name,
               type |-> IF Includes(name, Str.redis) THEN "cache" ELSE "database",
               required |-> dep.type = "production"]>>
       ELSE <<>>

RECURSIVE detectExternalServices(_)
detectExternalServices(dependencies) ==
    IF dependencies = <<>> THEN <<>>
    ELSE ServiceOf(Head(dependencies)) \o detectExternalServices(Tail(dependencies))

\* ports pushed before de-duplication: [80], 443 if not present, then the
\* Dockerfile's exposed ports
RequirementPorts(buildConfig) ==
    LET base == <<80>>
        https == IF 443 \in Range(base) THEN base ELSE Append(base, 443)
    IN IF buildConfig.dockerfileAnalysis.defined
       THEN https \o buildConfig.dockerfileAnalysis.exposedPorts
       ELSE https

DependencySurchargeAbove == 50

\* the surcharge applied from 50 dependencies on
calculateDeploymentRequirements_SurchargeFrom50(techStack, dependencies, buildConfig) ==
    LET js == techStack.primary \in {"javascript", "typescript"}
        heavyJs == js /\ techStack.framework \in {"nextjs", "nuxt"}
        django == techStack.primary = "python" /\ techStack.framework = "django"
        java == techStack.primary = "java"
        cpu == IF heavyJs \/ java THEN [min |-> 2, recommended |-> 4]
               ELSE IF django THEN [min |-> 2, recommended |-> 2]
               ELSE [min |-> 1, recommended |-> 1]
        memory == IF heavyJs \/ java THEN [min |-> Str.mem2GB, recommended |-> Str.mem4GB]
                  ELSE IF js \/ django THEN [min |-> Str.mem1GB, recommended |-> Str.mem2GB]
                  ELSE [min |-> Str.mem512MB, recommended |-> Str.mem1GB]
    IN [cpu |-> cpu,
        memory |-> IF Len(dependencies) >= DependencySurchargeAbove
                   THEN [memory EXCEPT !.recommended = ScaleFirstNumber(@, 3, 2)]
                   ELSE memory,
        storage |-> [min |-> Str.mem1GB, type |-> "ssd"],
        network |-> [ports |-> Dedupe(RequirementPorts(buildConfig)),
                     protocols |-> <<"http", "https">>],
        services |-> detectExternalServices(dependencies),
        constraints |-> <<>>]

\* the django branch raising cpu.min alone
calculateDeploymentRequirements_DjangoMinOnly(techStack, dependencies, buildConfig) ==
    LET js == techStack.primary \in {"javascript", "typescript"}
        heavyJs == js /\ techStack.framework \in {"nextjs", "nuxt"}
        django == techStack.primary = "python" /\ techStack.framework = "django"
        java == techStack.primary = "java"
        cpu == IF heavyJs \/ java THEN [min |-> 2, recommended |-> 4]
               ELSE IF django THEN [min |-> 2, recommended |-> 1]
               ELSE [min |-> 1, recommended |-> 1]
        memory == IF heavyJs \/ java THEN [min |-> Str.mem2GB, recommended |-> Str.mem4GB]
                  ELSE IF js \/ django THEN [min |-> Str.mem1GB, recommended |-> Str.mem2GB]
                  ELSE [min |-> Str.mem512MB, recommended |-> Str.mem1GB]
    IN [cpu |-> cpu,
        memory |-> IF Len(dependencies) > DependencySurchargeAbove
                   THEN [memory EXCEPT !.recommended = ScaleFirstNumber(@, 3, 2)]
                   ELSE memory,
        storage |-> [min |-> Str.mem1GB, type |-> "ssd"],
        network |-> [ports |-> Dedupe(RequirementPorts(buildConfig)),
                     protocols |-> <<"http", "https">>],
        services |-> detectExternalServices(dependencies),
        constraints |-> <<>>]

calculateDeploymentRequirements(techStack, dependencies, buildConfig) ==
    LET js == techStack.primary \in {"javascript", "typescript"}
        heavyJs == js /\ techStack.framework \in {"nextjs", "nuxt"}
        django == techStack.primary = "python" /\ techStack.framework = "django"
        java == techStack.primary = "java"
        cpu == IF heavyJs \/ java THEN [min |-> 2, recommended |-> 4]
               ELSE IF django THEN [min |-> 2, recommended |-> 2]
               ELSE [min |-> 1, recommended |-> 1]
        memory == IF heavyJs \/ java THEN [min |-> Str.mem2GB, recommended |-> Str.mem4GB]
                  ELSE IF js \/ django THEN [min |-> Str.mem1GB, recommended |-> Str.mem2GB]
                  ELSE [min |-> Str.mem512MB, recommended |-> Str.mem1GB]
    IN [cpu |-> cpu,
        memory |-> IF Len(dependencies) > DependencySurchargeAbove
                   THEN [memory EXCEPT !.recommended = ScaleFirstNumber(@, 3, 2)]
                   ELSE memory,
        storage |-> [min |-> Str.mem1GB, type |-> "ssd"],
        network |-> [ports |-> Dedupe(RequirementPorts(buildConfig)),
                     protocols |-> <<"http", "https">>],
        services |-> detectExternalServices(dependencies),
        constraints |-> <<>>]

----------------------------------------------------------------------------
(* RepositoryService.generateDeploymentStrategy *)

\* a step numbered from 0
Step_ZeroBased(order, name, timeout) == [order |-> order - 1, name |-> name, timeout |-> timeout]

\* one entry of a step list: { order, name, description, timeout }
Step(order, name, timeout) == [order |-> order, name |-> name, timeout |-> timeout]

ContainerSteps ==
    <<Step(1, "Clone repository", 60),
      Step(2, "Build Docker image", 300),
      Step(3, "Stop existing container", 30),
      Step(4, "Start new container", 60),
      Step(5, "Health check", 60),
      Step(6, "Update reverse proxy", 30)>>

\* the generic step list given for every runtime, the lookup on the tag lost
generateNativeDeploymentSteps_Generic(techStack) ==
    <<Step(1, "Clone repository", 60),
      Step(2, "Install dependencies", 180),
      Step(3, "Build application", 300),
      Step(4, "Deploy application", 60),
      Step(5, "Health check", 60)>>

generateNativeDeploymentSteps(techStack) ==
    IF techStack.runtime = "nodejs"
    THEN <<Step(1, "Clone repository", 60),
           Step(2, "Install dependencies", 180),
           Step(3, "Build application", 300),
           Step(4, "Stop existing process", 30),
           Step(5, "Start with PM2", 60),
           Step(6, "Health check", 60),
           Step(7, "Update reverse proxy", 30)>>
    ELSE IF techStack.runtime = "python"
    THEN <<Step(1, "Clone repository", 60),
           Step(2, "Create virtual environment", 30),
           Step(3, "Install dependencies", 180),
           Step(4, "Run migrations", 120),
           Step(5, "Stop existing service", 30),
           Step(6, "Start with Gunicorn", 60),
           Step(7, "Health check", 60),
           Step(8, "Update reverse proxy", 30)>>
    ELSE <<Step(1, "Clone repository", 60),
           Step(2, "Install dependencies", 180),
           Step(3, "Build application", 300),
           Step(4, "Deploy application", 60),
           Step(5, "Health check", 60)>>

recommendInfrastructure(requirements, techStack) ==
    LET mid == Includes(requirements.memory.recommended, Str.mem4GB)
        top == ~mid /\ requirements.cpu.recommended >= 4
        instanceType == IF mid THEN "basic-2vcpu-4gb"
                        ELSE IF top THEN "basic-4vcpu-8gb"
                        ELSE "basic-1vcpu-2gb"
        estimatedCost == IF mid THEN 48 ELSE IF top THEN 96 ELSE 24
    IN [provider |-> "digitalocean",
        instance |-> [type |-> instanceType,
                      cpu |-> requirements.cpu.recommended,
                      memory |-> requirements.memory.recommended,
                      storage |-> "25GB"],
        network |-> [vpc |-> FALSE, loadBalancer |-> FALSE, cdn |-> FALSE],
        scaling |-> [min |-> 1, max |-> 3, target |-> "cpu", threshold |-> 80],
        estimatedCost |-> [monthly |-> estimatedCost,
                           currency |-> "USD",
                           breakdown |-> <<[component |-> "Droplet", cost |-> estimatedCost],
                                           [component |-> "Bandwidth", cost |-> 0]>>]]

RECURSIVE SensitiveNames(_)
SensitiveNames(envs) ==
    IF envs = <<>> THEN <<>>
    ELSE (IF Head(envs).sensitive THEN <<Head(envs).name>> ELSE <<>>)
         \o SensitiveNames(Tail(envs))

generateDeploymentStrategy(techStack, buildConfig, requirements) ==
    [type |-> IF buildConfig.hasDockerfile THEN "container" ELSE "server",
     approach |-> IF buildConfig.hasDockerfile THEN "docker"
                  ELSE IF techStack.runtime = "nodejs" THEN "pm2" ELSE "systemd",
     steps |-> IF buildConfig.hasDockerfile THEN ContainerSteps
               ELSE generateNativeDeploymentSteps(techStack),
     infrastructure |-> recommendInfrastructure(requirements, techStack),
     security |-> [https |-> TRUE,
                   firewall |-> <<[port |-> 22, protocol |-> "tcp"],
                                  [port |-> 80, protocol |-> "http"],
                                  [port |-> 443, protocol |-> "https"]>>,
                   secrets |-> SensitiveNames(buildConfig.environmentVariables),
                   monitoring |-> TRUE,
                   backups |-> [enabled |-> TRUE, frequency |-> "daily",
                                retention |-> 7, type |-> "incremental"]],
     monitoring |-> [healthCheck |-> [endpoint |-> "/health", interval |-> 30, timeout |-> 5],
                     metrics |-> <<"cpu", "memory", "disk", "network">>,
                     logging |-> [level |-> "info", retention |-> 7]],
     rollback |-> [type |-> "manual",
                   triggers |-> <<"health_check_failed", "deployment_timeout">>,
                   steps |-> <<"stop_new_service", "restore_previous_version", "verify_rollback">>,
                   timeout |-> 300]]

----------------------------------------------------------------------------
(* RepositoryService: confidence, warnings, recommendations *)

\* the sum of the deltas, returned without Math.min(confidence, 95)
calculateConfidence_Uncapped(techStack, dependencies, buildConfig) ==
    50
    + (IF techStack.primary # "unknown" THEN 20 ELSE 0)
    + (IF techStack.framework \notin {Undefined, "none"} THEN 15 ELSE 0)
    + (IF buildConfig.hasDockerfile THEN 15 ELSE 0)
    + (IF buildConfig.startScript # <<>> THEN 10 ELSE 0)
    + (IF Len(dependencies) > 0 THEN 10 ELSE 0)

\* the Dockerfile signal counted with the weight of the start-script signal
calculateConfidence_DockerfileTen(techStack, dependencies, buildConfig) ==
    LET confidence ==
            50
            + (IF techStack.primary # "unknown" THEN 20 ELSE 0)
            + (IF techStack.framework \notin {Undefined, "none"} THEN 15 ELSE 0)
            + (IF buildConfig.hasDockerfile THEN 10 ELSE 0)
            + (IF buildConfig.startScript # <<>> THEN 10 ELSE 0)
            + (IF Len(dependencies) > 0 THEN 10 ELSE 0)
    IN IF confidence < 95 THEN confidence ELSE 95

calculateConfidence(techStack, dependencies, buildConfig) ==
    LET confidence ==
            50
            + (IF techStack.primary # "unknown" THEN 20 ELSE 0)
            + (IF techStack.framework \notin {Undefined, "none"} THEN 15 ELSE 0)
            + (IF buildConfig.hasDockerfile THEN 15 ELSE 0)
            + (IF buildConfig.startScript # <<>> THEN 10 ELSE 0)
            + (IF Len(dependencies) > 0 THEN 10 ELSE 0)
    IN IF confidence < 95 THEN confidence ELSE 95

SensitiveWithoutDefault(buildConfig) ==
    \E i \in 1..Len(buildConfig.environmentVariables) :
        LET env == buildConfig.environmentVariables[i]
        IN env.sensitive /\ (~env.hasDefault \/ env.defaultValue = <<>>)

\* the four tests chained with else: only the first message that applies
generateWarnings_FirstOnly(techStack, dependencies, buildConfig) ==
    IF techStack.primary = "unknown"
    THEN <<"Could not determine primary technology stack">>
    ELSE IF ~buildConfig.hasDockerfile /\ buildConfig.startScript = <<>>
    THEN <<"No Dockerfile or start script found - may require manual configuration">>
    ELSE IF Len(dependencies) = 0
    THEN <<"No dependencies detected - analysis may be incomplete">>
    ELSE IF SensitiveWithoutDefault(buildConfig)
    THEN <<"Sensitive environment variables detected without defaults">>
    ELSE <<>>

generateWarnings(techStack, dependencies, buildConfig) ==
    (IF techStack.primary = "unknown"
     THEN <<"Could not determine primary technology stack">> ELSE <<>>)
    \o (IF ~buildConfig.hasDockerfile /\ buildConfig.startScript = <<>>
        THEN <<"No Dockerfile or start script found - may require manual configuration">>
        ELSE <<>>)
    \o (IF Len(dependencies) = 0
        THEN <<"No dependencies detected - analysis may be incomplete">> ELSE <<>>)
    \o (IF SensitiveWithoutDefault(buildConfig)
        THEN <<"Sensitive environment variables detected without defaults">> ELSE <<>>)

\* PM2 recommended to every Node.js project, the dependency list not consulted
generateRecommendations_Pm2Always(techStack, dependencies, buildConfig) ==
    (IF ~buildConfig.hasDockerfile
     THEN <<"Consider adding a Dockerfile for consistent deployments">> ELSE <<>>)
    \o (IF techStack.runtime = "nodejs"
        THEN <<"Consider using PM2 for Node.js process management">> ELSE <<>>)
    \o (IF buildConfig.testScript = <<>>
        THEN <<"Add automated tests to improve deployment confidence">> ELSE <<>>)
    \o <<"Set up SSL/TLS certificate for HTTPS encryption",
         "Configure automated backups for data protection",
         "Implement monitoring and alerting for production readiness">>

generateRecommendations(techStack, dependencies, buildConfig) ==
    (IF ~buildConfig.hasDockerfile
     THEN <<"Consider adding a Dockerfile for consistent deployments">> ELSE <<>>)
    \o (IF techStack.runtime = "nodejs"
           /\ ~\E i \in 1..Len(dependencies) : dependencies[i].name = Str.pm2
        THEN <<"Consider using PM2 for Node.js process management">> ELSE <<>>)
    \o (IF buildConfig.testScript = <<>>
        THEN <<"Add automated tests to improve deployment confidence">> ELSE <<>>)
    \o <<"Set up SSL/TLS certificate for HTTPS encryption",
         "Configure automated backups for data protection",
         "Implement monitoring and alerting for production readiness">>

----------------------------------------------------------------------------
(* RepositoryService.analyzeRepository *)

NoAnalysis == [defined |-> FALSE]

\* the record built at lines 597-608 from the three leaf analyses
\* the record built from a dependency list that is kept from run to run
ComposeAnalysis_Accumulating(techStack, dependencies, buildConfig) ==
    LET kept == (IF earlier.defined THEN earlier.dependencies ELSE <<>>) \o dependencies
        requirements == calculateDeploymentRequirements(techStack, kept, buildConfig)
    IN [defined |-> TRUE,
        techStack |-> techStack,
        dependencies |-> kept,
        buildConfig |-> buildConfig,
        requirements |-> requirements,
        strategy |-> generateDeploymentStrategy(techStack, buildConfig, requirements),
        confidence |-> calculateConfidence(techStack, kept, buildConfig),
        warnings |-> generateWarnings(techStack, kept, buildConfig),
        recommendations |-> generateRecommendations(techStack, kept, buildConfig)]

ComposeAnalysis(techStack, dependencies, buildConfig) ==
    LET requirements == calculateDeploymentRequirements(techStack, dependencies, buildConfig)
    IN [defined |-> TRUE,
        techStack |-> techStack,
        dependencies |-> dependencies,
        buildConfig |-> buildConfig,
        requirements |-> requirements,
        strategy |-> generateDeploymentStrategy(techStack, buildConfig, requirements),
        confidence |-> calculateConfidence(techStack, dependencies, buildConfig),
        warnings |-> generateWarnings(techStack, dependencies, buildConfig),
        recommendations |-> generateRecommendations(techStack, dependencies, buildConfig)]

\* the whole call: Promise.all rejects when detectTechStack rejects
analyzeRepository(repo) ==
    IF detectTechStack(repo).threw THEN Thrown(NoAnalysis)
    ELSE Returned(ComposeAnalysis(detectTechStack(repo).value,
                                  analyzeDependencies(repo),
                                  analyzeBuildConfiguration(repo)))

----------------------------------------------------------------------------
(* Snapshots analysed *)

Manifests ==
    {"package.json", "requirements.txt", "Gemfile", "go.mod", "pom.xml",
     "Cargo.toml", "composer.json"}

Entry(n, v) == [name |-> n, version |-> v]

ObjectWith(deps, devDeps) ==
    [EmptyObject EXCEPT !.dependencies = deps, !.devDependencies = devDeps]

WithScripts(json, b, st, t) ==
    [json EXCEPT !.hasScripts = TRUE, !.scripts = [build |-> b, start |-> st, test |-> t]]

\* n distinct dependency names: d, dd, ddd, ...
FillerEntries(n) == [i \in 1..n |-> Entry([j \in 1..i |-> "d"], Text.version1)]

\* ordered entry lists with distinct keys, as Object.entries gives them
EntryLists ==
    LET names == {Str.typescript, Str.types_node, Str.react, Str.pm2}
        entries == {Entry(n, v) : n \in names, v \in {<<>>, Text.version1}}
    IN {es \in SeqsUpTo(entries, MaxEntries) :
           \A i, j \in 1..Len(es) : i # j => es[i].name # es[j].name}

PackageObjects ==
    {ObjectWith(d, dd) : d \in EntryLists, dd \in EntryLists}
    \cup {WithScripts(ObjectWith(d, <<>>), Text.npm, st, t) :
            d \in EntryLists, st \in {<<>>, Text.npm}, t \in {<<>>, Text.npm}}

PackageKinds ==
    {JsonOfKind("unparsable"), JsonOfKind("null"), JsonOfKind("scalar"), EmptyObject,
     ObjectWith(<<Entry(Str.react, Text.version1)>>, <<Entry(Str.typescript, Text.version1)>>),
     ObjectWith(<<Entry(Str.next, Text.version1), Entry(Str.redis, Text.version1)>>, <<>>),
     ObjectWith(FillerEntries(DependencySurchargeAbove), <<>>),
     ObjectWith(FillerEntries(DependencySurchargeAbove + 1), <<Entry(Str.next, Text.version1)>>)}

DefaultTexts ==
    [f \in {"requirements.txt", "Gemfile", "go.mod", "Dockerfile", ".env.example"} |->
        CASE f = "requirements.txt" -> Text.flask
          [] f = "Gemfile" -> Text.rails
          [] f = "go.mod" -> Text.gin
          [] f = "Dockerfile" -> Text.node18
          [] OTHER -> Text.env]

EmptyRepo ==
    [files |-> {}, packageJson |-> EmptyObject, composerJson |-> EmptyObject,
     text |-> DefaultTexts, html |-> FALSE]

\* contents of files that are not present are kept at their defaults
RepoOf(files, packageJson, html) ==
    [EmptyRepo EXCEPT
        !.files = files,
        !.packageJson = IF "package.json" \in files THEN packageJson ELSE EmptyObject,
        !.html = html]

\* Dockerfile, example-env and requirements contents
RECURSIVE JoinWithSpaces(_)
JoinWithSpaces(tokens) ==
    IF tokens = <<>> THEN <<>>
    ELSE IF Len(tokens) = 1 THEN Head(tokens)
    ELSE Head(tokens) \o <<" ">> \o JoinWithSpaces(Tail(tokens))

ExposeTexts ==
    LET tokens == {<<"8", "0">>, <<"4", "4", "3">>, <<"3", "0", "0", "0">>, <<"t", "c", "p">>}
    IN {<<"E", "X", "P", "O", "S", "E", " ">> \o JoinWithSpaces(ts) :
           ts \in SeqsUpTo(tokens, MaxExposed)}

Snapshots ==
    LET
        \* every combination of manifests, alone and beside a Python file
        StackSnapshots ==
            {RepoOf(files \cup py, json, html) :
                files \in SUBSET Manifests,
                py \in {{}, {"app.py"}, {"main.py"}, {"manage.py"}},
                json \in PackageKinds \ {ObjectWith(FillerEntries(DependencySurchargeAbove), <<>>)},
                html \in BOOLEAN}

        \* every enumerated package.json
        PackageSnapshots ==
            {RepoOf({"package.json"}, json, FALSE) :
                json \in PackageObjects
                         \cup {ObjectWith(FillerEntries(DependencySurchargeAbove), <<>>)}}

        BuildSnapshots ==
            {[RepoOf(files, json, FALSE) EXCEPT
                !.text = [DefaultTexts EXCEPT !["Dockerfile"] = docker,
                                              ![".env.example"] = env,
                                              !["requirements.txt"] = req]] :
                files \in {{"Dockerfile"} \cup fs : fs \in SUBSET {"package.json", "requirements.txt", ".env.example"}}
                          \cup {{}, {".env.example"}, {"requirements.txt"}, {"pom.xml"}},
                json \in {EmptyObject,
                          WithScripts(EmptyObject, Text.npm, Text.npm, Text.npm),
                          WithScripts(ObjectWith(<<Entry(Str.react, Text.version1)>>, <<>>),
                                      Text.npm, Text.npm, Text.npm),
                          ObjectWith(FillerEntries(DependencySurchargeAbove + 1), <<>>)},
                docker \in {<<>>, Text.node18, Text.multistage},
                env \in {Text.env, Text.envdefaults},
                req \in {Text.flask, Text.django}}

        ExposeSnapshots ==
            {[RepoOf({"Dockerfile"}, EmptyObject, FALSE) EXCEPT !.text["Dockerfile"] = docker] :
                docker \in ExposeTexts}

        \* dependencies named after services, in either case, and names that
        \* only contain a service name
        ServiceSnapshots ==
            LET lists == {<<>>,
                          <<Entry(Str.mysql2, Text.version1)>>,
                          <<Entry(<<"P", "G">>, Text.version1)>>,
                          <<Entry(<<"R", "e", "d", "i", "s">>, Text.version1)>>,
                          <<Entry(<<"i", "o", "r", "e", "d", "i", "s">>, Text.version1)>>,
                          <<Entry(Str.redis, Text.version1), Entry(Str.react, Text.version1),
                            Entry(Str.mongoose, Text.version1)>>}
            IN {RepoOf({"package.json"}, ObjectWith(d, dd), FALSE) :
                    d \in lists, dd \in lists}

        \* example-env files: names in mixed case, with spaces, without '=',
        \* and the words of the naming test in names and in values
        EnvSnapshots ==
            {[RepoOf({".env.example"}, EmptyObject, FALSE) EXCEPT !.text[".env.example"] = env] :
                env \in {<<" ", "S", "e", "c", "r", "e", "t", " ", "=", " ", "x">>,
                         <<"m", "o", "n", "k", "e", "y", "=", "1", "\n", "H", "O", "S", "T", "=", "h">>,
                         <<"p", "a", "s", "s", " ", "w", "o", "r", "d", "=", "1", "\n", "K", "E", "Y">>,
                         <<"=", "s", "e", "c", "r", "e", "t">>,
                         <<"P", "a", "s", "s", "W", "o", "r", "d", "_", "K", "e", "y", "=", "\n", "u", "s", "e", "r", "=", "s", "e", "c", "r", "e", "t">>}}

        \* Dockerfiles with one and with several FROM lines, with and without
        \* an alias, and with the words FROM and as on other lines
        DockerSnapshots ==
            {[RepoOf({"Dockerfile"}, EmptyObject, FALSE) EXCEPT !.text["Dockerfile"] = docker] :
                docker \in {<<"F", "R", "O", "M", " ", "a", "\n", "#", " ", "F", "R", "O", "M", " ", "b">>,
                            <<"F", "R", "O", "M", " ", "a", " ", "a", "s", " ", "b">>,
                            <<"F", "R", "O", "M", " ", "a", "\n", "F", "R", "O", "M", " ", "b">>,
                            <<"F", "R", "O", "M", " ", "a", " ", "A", "S", " ", "b">>,
                            <<" ", "F", "R", "O", "M", " ", "a">>,
                            <<"E", "X", "P", "O", "S", "E", " ", "1">>,
                            <<"F", "R", "O", "M", " ", "a", "\n", "R", "U", "N", " ", "x", " ", "a", "s", " ", "y">>}}
    IN StackSnapshots \cup PackageSnapshots \cup BuildSnapshots \cup ExposeSnapshots
       \cup ServiceSnapshots \cup EnvSnapshots \cup DockerSnapshots

----------------------------------------------------------------------------
(* RepositoryService: the snapshot cache *)

\* character codes of the characters repository URLs are written with
CharCode(c) ==
    IF \E i \in 1..26 : LowerCase[i] = c
    THEN 96 + (CHOOSE i \in 1..26 : LowerCase[i] = c)
    ELSE IF \E i \in 1..26 : UpperCase[i] = c
    THEN 64 + (CHOOSE i \in 1..26 : UpperCase[i] = c)
    ELSE IF IsDigit(c) THEN 48 + DigitValue(c)
    ELSE IF c = "/" THEN 47
    ELSE IF c = "." THEN 46
    ELSE IF c = ":" THEN 58
    ELSE IF c = ">" THEN 62
    ELSE 63                                      \* "?"

\* Buffer.from(url): the bytes of the text
RECURSIVE Bytes(_)
Bytes(s) == IF s = <<>> THEN <<>> ELSE <<CharCode(Head(s))>> \o Bytes(Tail(s))

Base64Alphabet == UpperCase \o LowerCase \o DigitChars \o <<"+", "/">>

\* Buffer.prototype.toString('base64')
RECURSIVE Base64(_)
Base64(bytes) ==
    LET char(sextet) == Base64Alphabet[sextet + 1]
    IN IF bytes = <<>> THEN <<>>
       ELSE IF Len(bytes) = 1
       THEN <<char(bytes[1] \div 4), char((bytes[1] % 4) * 16), "=", "=">>
       ELSE IF Len(bytes) = 2
       THEN <<char(bytes[1] \div 4),
              char((bytes[1] % 4) * 16 + (bytes[2] \div 16)),
              char((bytes[2] % 16) * 4), "=">>
       ELSE <<char(bytes[1] \div 4),
              char((bytes[1] % 4) * 16 + (bytes[2] \div 16)),
              char((bytes[2] % 16) * 4 + (bytes[3] \div 64)),
              char(bytes[3] % 64)>>
            \o Base64(SubSeq(bytes, 4, Len(bytes)))

\* String.prototype.replace(/[^a-zA-Z0-9]/g, '_')
ReplaceNonAlphaNumeric(s) ==
    [i \in 1..Len(s) |->
        IF s[i] \in Range(LowerCase) \cup Range(UpperCase) \cup Range(DigitChars)
        THEN s[i] ELSE "_"]

getRepositoryId(url) == ReplaceNonAlphaNumeric(Base64(Bytes(url)))

cacheDir == <<".", "/", "c", "a", "c", "h", "e", "/", "r", "e", "p", "o", "s", "i", "t", "o", "r", "i", "e", "s">>

\* path.join(this.cacheDir, repoId): the leading './' is normalised away
getLocalPath(repoId) ==
    SubSeq(cacheDir, 3, Len(cacheDir)) \o (IF repoId = <<>> THEN <<>> ELSE <<"/">> \o repoId)

EndsWith(s, p) == Len(s) >= Len(p) /\ SubSeq(s, Len(s) - Len(p) + 1, Len(s)) = p

\* url.match(/\/([^\/]+?)(?:\.git)?$/): the text after the last '/', without
\* a trailing '.git'; 'unknown' when there is no '/' or nothing follows it
extractRepoName(url) ==
    LET slashes == {i \in 1..Len(url) : url[i] = "/"}
        last == CHOOSE i \in slashes : \A j \in slashes : j <= i
        tail == SubSeq(url, last + 1, Len(url))
    IN IF slashes = {} \/ last = Len(url)
       THEN <<"u", "n", "k", "n", "o", "w", "n">>
       ELSE IF EndsWith(tail, Str.dot_git) /\ Len(tail) > Len(Str.dot_git)
       THEN SubSeq(tail, 1, Len(tail) - Len(Str.dot_git))
       ELSE tail

maxAgeMs == 60 * 60 * 1000

\* lines 527: the cached snapshot is still valid
CacheValid_Inclusive(ageMs) == ageMs <= maxAgeMs

CacheValid(ageMs) == ageMs < maxAgeMs

\* RepositoryInfo, lines 528-536 and 552-560
RepositoryInfo(url, branch, lastAnalyzed, cacheExpiry) ==
    [id |-> getRepositoryId(url), url |-> url, name |-> extractRepoName(url),
     branch |-> branch, localPath |-> getLocalPath(getRepositoryId(url)),
     lastAnalyzed |-> lastAnalyzed, cacheExpiry |-> cacheExpiry]

\* repository URLs and branches the calls are made with
Urls == {<<"o", "/", "a", "p", "i">>, <<"o", "/", "w", "e", "b", ".", "g", "i", "t">>}

Branches == {"main", "dev"}

LocalPaths == {getLocalPath(getRepositoryId(u)) : u \in Urls}

Calls == {"first", "second"}

\* the working directory of the process, where simpleGit() starts
ProcessCwd == <<".">>

NoDirectory == [exists |-> FALSE, mtime |-> 0, branch |-> "none"]

NoCall ==
    [pc |-> "idle", url |-> <<>>, branch |-> "main", forceRefresh |-> FALSE,
     exists |-> FALSE, mtime |-> 0, now |-> 0, decision |-> "none", issued |-> {},
     info |-> [defined |-> FALSE]]

\* instants the clock is observed at: around each multiple of maxAgeMs
Instants ==
    {t \in {k * maxAgeMs + e : k \in 0..MaxClockHours, e \in {-1, 0, 1}} : t >= 0}

----------------------------------------------------------------------------
(* Parts of the state a specification does not exercise stay idle *)

Leaves == {"detectTechStack", "analyzeDependencies", "analyzeBuildConfiguration"}

NoBuildConfig == analyzeBuildConfiguration(EmptyRepo)

IdleReq == reqText = <<>> /\ reqPc = "idle" /\ reqDeps = <<>>

NoConfig == [defined |-> FALSE, infrastructure |-> FALSE, ssl |-> FALSE, domain |-> FALSE]

NoArgs ==
    [defined |-> FALSE, repository_url |-> "undefined", deployment_config |-> NoConfig,
     ids |-> FALSE, repository_path |-> "undefined", skip_tests |-> FALSE,
     package_type |-> "docker", performance_tier |-> "standard", budget_limit |-> 0]

IdleTool ==
    /\ tool = "none"
    /\ args = NoArgs
    /\ tcPc = "idle"
    /\ performed = {}
    /\ failure = {}
    /\ outcome = [state |-> "pending"]
    /\ result = [returned |-> FALSE]

IdleCache ==
    /\ clock = 0
    /\ gitCwd = ProcessCwd
    /\ dirs = [p \in LocalPaths |-> NoDirectory]
    /\ calls = [c \in Calls |-> NoCall]

IdleAn ==
    /\ snapshot = EmptyRepo
    /\ anPc = "idle"
    /\ leaf = [l \in Leaves |-> "idle"]
    /\ stackResult = NoStack
    /\ depsResult = <<>>
    /\ buildResult = NoBuildConfig
    /\ anResult = NoAnalysis
    /\ earlier = NoAnalysis

----------------------------------------------------------------------------
(* Specification of the requirements.txt parser over bounded contents *)

ReqTexts == SeqsUpTo({"f", "2", "=", ">", "~", " ", "#", "\n"}, MaxTextLen) \cup {Text.flask}

InitReq ==
    /\ reqText \in ReqTexts
    /\ reqPc = "ready"
    /\ reqDeps = <<>>
    /\ IdleAn
    /\ IdleTool
    /\ IdleCache

ParseRequirements ==
    /\ reqPc = "ready"
    /\ reqDeps' = parseRequirements([exists |-> TRUE, text |-> reqText])
    /\ reqPc' = "parsed"
    /\ UNCHANGED reqText
    /\ UNCHANGED <<varsAn, varsTool, varsCache>>

NextReq == ParseRequirements

SpecReq == InitReq /\ [][NextReq]_vars

----------------------------------------------------------------------------
(* Specification of analyzeRepository over the snapshots *)

InitAn ==
    /\ snapshot \in Snapshots
    /\ anPc = "ready"
    /\ leaf = [l \in Leaves |-> "idle"]
    /\ stackResult = NoStack
    /\ depsResult = <<>>
    /\ buildResult = NoBuildConfig
    /\ anResult = NoAnalysis
    /\ earlier = NoAnalysis
    /\ IdleReq
    /\ IdleTool
    /\ IdleCache

\* analyzeRepository is entered: the three leaf analyses are started
StartAnalysis ==
    /\ anPc = "ready"
    /\ anPc' = "running"
    /\ leaf' = [l \in Leaves |-> "pending"]
    /\ UNCHANGED <<snapshot, stackResult, depsResult, buildResult, anResult, earlier>>
    /\ UNCHANGED <<varsReq, varsTool, varsCache>>

DetectTechStack ==
    /\ leaf["detectTechStack"] = "pending"
    /\ LET r == detectTechStack(snapshot)
       IN /\ leaf' = [leaf EXCEPT !["detectTechStack"] = IF r.threw THEN "threw" ELSE "done"]
          /\ stackResult' = r.value
    /\ UNCHANGED <<snapshot, anPc, depsResult, buildResult, anResult, earlier>>
    /\ UNCHANGED <<varsReq, varsTool, varsCache>>

AnalyzeDependencies ==
    /\ leaf["analyzeDependencies"] = "pending"
    /\ leaf' = [leaf EXCEPT !["analyzeDependencies"] = "done"]
    /\ depsResult' = analyzeDependencies(snapshot)
    /\ UNCHANGED <<snapshot, anPc, stackResult, buildResult, anResult, earlier>>
    /\ UNCHANGED <<varsReq, varsTool, varsCache>>

AnalyzeBuildConfiguration ==
    /\ leaf["analyzeBuildConfiguration"] = "pending"
    /\ leaf' = [leaf EXCEPT !["analyzeBuildConfiguration"] = "done"]
    /\ buildResult' = analyzeBuildConfiguration(snapshot)
    /\ UNCHANGED <<snapshot, anPc, stackResult, depsResult, anResult, earlier>>
    /\ UNCHANGED <<varsReq, varsTool, varsCache>>

\* Promise.all resolved: requirements, strategy and the record are computed
ReturnAnalysis ==
    /\ anPc = "running"
    /\ \A l \in Leaves : leaf[l] = "done"
    /\ anResult' = ComposeAnalysis(stackResult, depsResult, buildResult)
    /\ anPc' = "returned"
    /\ UNCHANGED <<snapshot, leaf, stackResult, depsResult, buildResult, earlier>>
    /\ UNCHANGED <<varsReq, varsTool, varsCache>>

\* Promise.all rejected: analyzeRepository rejects with the leaf's error
RejectAnalysis ==
    /\ anPc = "running"
    /\ \E l \in Leaves : leaf[l] = "threw"
    /\ anPc' = "threw"
    /\ UNCHANGED <<snapshot, leaf, stackResult, depsResult, buildResult, anResult, earlier>>
    /\ UNCHANGED <<varsReq, varsTool, varsCache>>

\* analyzeRepository is called once more on the snapshot, which nobody has
\* modified; the service keeps nothing from the first run
AnalyzeAgain ==
    /\ anPc = "returned"
    /\ ~earlier.defined
    /\ earlier' = anResult
    /\ anPc' = "running"
    /\ leaf' = [l \in Leaves |-> "pending"]
    /\ stackResult' = NoStack
    /\ depsResult' = <<>>
    /\ buildResult' = NoBuildConfig
    /\ anResult' = NoAnalysis
    /\ UNCHANGED snapshot
    /\ UNCHANGED <<varsReq, varsTool, varsCache>>

NextAn ==
    \/ StartAnalysis
    \/ AnalyzeAgain
    \/ DetectTechStack
    \/ AnalyzeDependencies
    \/ AnalyzeBuildConfiguration
    \/ ReturnAnalysis
    \/ RejectAnalysis

Spec == InitAn /\ [][NextAn]_vars

----------------------------------------------------------------------------
(* MCPHandler: tool methods *)

AnalysisTools ==
    {"mercury_analyze_repository", "mercury_generate_deployment_plan",
     "mercury_validate_deployment", "mercury_estimate_deployment_cost",
     "mercury_detect_security_issues"}

ExecuteTools ==
    {"mercury_execute_repository_clone", "mercury_execute_repository_build",
     "mercury_execute_repository_test", "mercury_execute_repository_package"}

ToolNames == AnalysisTools \cup ExecuteTools \cup {"mercury_get_repository_cache"}

\* Values an argument can take are modelled by their kind.
\* repository_url: "undefined", "empty" (''), "number", "array", "string" (a URL)
UrlKinds == {"undefined", "empty", "number", "array", "string"}

Resolved(payload) == [state |-> "resolved", payload |-> payload]
Rejected(message) == [state |-> "rejected", message |-> message]
Continue(pc) == [state |-> "pending", pc |-> pc]

TypeError(what) == <<"TypeError", what>>

\* cloneOrUpdateRepository, lines 514-516, run before its try block:
\* Buffer.from(url) throws for undefined and for a number, url.match is
\* missing on an array
AcquisitionPrefix(url) ==
    IF url \in {"undefined", "number"}
    THEN Thrown(TypeError("The first argument must be of type string"))
    ELSE IF url = "array"
    THEN Thrown(TypeError("url.match is not a function"))
    ELSE Returned(<<>>)

ExecutionRecord(status, message) ==
    [execution |-> [status |-> status, error |-> message]]

\* the synchronous start of a tool method, up to its first collaborator call
EnterTool(toolName, a) ==
    IF toolName \notin ToolNames
    THEN Rejected(<<"Unknown tool: ", toolName>>)
    ELSE IF toolName = "mercury_get_repository_cache"
    THEN Resolved([cached |-> FALSE,
                   message |-> "Cache functionality not yet implemented"])
    ELSE IF ~a.defined        \* `const { ... } = args` throws on undefined and null
    THEN Rejected(TypeError("Cannot destructure args"))
    ELSE IF toolName = "mercury_analyze_repository"
    THEN (IF a.repository_url # "string"
          THEN Rejected(<<"repository_url is required and must be a valid URL string", "">>)
          ELSE Continue("acquire"))
    ELSE IF toolName \in AnalysisTools
    THEN (IF AcquisitionPrefix(a.repository_url).threw
          THEN Rejected(AcquisitionPrefix(a.repository_url).value)
          ELSE Continue("acquire"))
    ELSE IF toolName = "mercury_execute_repository_clone"
    THEN (IF a.repository_url \in {"undefined", "empty"} \/ ~a.ids
          THEN Rejected(<<"repository_url, workspace_id, and user_id are required", "">>)
          ELSE IF a.repository_url # "string"
          THEN Rejected(TypeError("repositoryUrl.split is not a function"))
          ELSE Continue("prepare"))
    ELSE IF a.repository_path = "undefined" \/ ~a.ids
    THEN Rejected(<<"repository_path, workspace_id, and user_id are required", "">>)
    ELSE IF toolName = "mercury_execute_repository_test" /\ a.skip_tests
    THEN Resolved(ExecutionRecord("skipped", <<>>))
    ELSE Continue("prepare")

\* the report with critical_count read from the count of severity high
SecurityReport_CriticalCountsHigh(analysis) ==
    LET vulnerabilities ==
            (IF ~analysis.buildConfig.hasDockerfile
             THEN <<[id |-> "SEC-001", severity |-> "low"]>> ELSE <<>>)
            \o (IF SensitiveWithoutDefault(analysis.buildConfig)
                THEN <<[id |-> "SEC-002", severity |-> "high"]>> ELSE <<>>)
            \o (IF ~analysis.strategy.security.https
                THEN <<[id |-> "SEC-003", severity |-> "critical"]>> ELSE <<>>)
        severities == {vulnerabilities[i].severity : i \in 1..Len(vulnerabilities)}
        severityCounts ==
            [sev \in severities |->
                Cardinality({i \in 1..Len(vulnerabilities) : vulnerabilities[i].severity = sev})]
    IN [security_report |->
           [vulnerabilities |-> vulnerabilities,
            summary |-> [total |-> Len(vulnerabilities),
                         by_severity |-> severityCounts,
                         critical_count |-> IF "high" \in severities
                                            THEN severityCounts["high"] ELSE 0],
            recommendations |-> <<"Enable HTTPS/SSL encryption",
                                  "Implement proper secret management",
                                  "Configure firewall rules",
                                  "Set up automated security updates",
                                  "Enable access logging and monitoring">>]]

\* detectSecurityIssues, lines 327-385
SecurityReport(analysis) ==
    LET vulnerabilities ==
            (IF ~analysis.buildConfig.hasDockerfile
             THEN <<[id |-> "SEC-001", severity |-> "low"]>> ELSE <<>>)
            \o (IF SensitiveWithoutDefault(analysis.buildConfig)
                THEN <<[id |-> "SEC-002", severity |-> "high"]>> ELSE <<>>)
            \o (IF ~analysis.strategy.security.https
                THEN <<[id |-> "SEC-003", severity |-> "critical"]>> ELSE <<>>)
        severities == {vulnerabilities[i].severity : i \in 1..Len(vulnerabilities)}
        severityCounts ==
            [sev \in severities |->
                Cardinality({i \in 1..Len(vulnerabilities) : vulnerabilities[i].severity = sev})]
    IN [security_report |->
           [vulnerabilities |-> vulnerabilities,
            summary |-> [total |-> Len(vulnerabilities),
                         by_severity |-> severityCounts,
                         critical_count |-> IF "critical" \in severities
                                            THEN severityCounts["critical"] ELSE 0],
            recommendations |-> <<"Enable HTTPS/SSL encryption",
                                  "Implement proper secret management",
                                  "Configure firewall rules",
                                  "Set up automated security updates",
                                  "Enable access logging and monitoring">>]]

\* adjustInfrastructureForTier, lines 407-440: the value it returns.  For the
\* budget limits tried, budgetLimit / monthly * n is computed without rounding
\* error, so Math.floor agrees with the integer quotient.
adjustInfrastructureForTier(base, tier, budgetLimit) ==
    LET tiered ==
            IF tier = "basic"
            THEN [base EXCEPT
                    !.instance.cpu = IF @ - 1 > 1 THEN @ - 1 ELSE 1,
                    !.instance.memory = Str.mem1GB,
                    !.estimatedCost.monthly = IF @ \div 2 > 6 THEN @ \div 2 ELSE 6]
            ELSE IF tier = "performance"
            THEN [base EXCEPT
                    !.instance.cpu = @ * 2,
                    !.instance.memory = ScaleFirstNumber(@, 2, 1),
                    !.estimatedCost.monthly = @ * 2]
            ELSE IF tier = "enterprise"
            THEN [base EXCEPT
                    !.instance.cpu = @ * 4,
                    !.instance.memory = ScaleFirstNumber(@, 4, 1),
                    !.estimatedCost.monthly = @ * 4,
                    !.scaling.max = 10]
            ELSE base
        monthly == tiered.estimatedCost.monthly
        Floored(n) == (n * budgetLimit) \div monthly
        memory == tiered.instance.memory
        hits == {i \in 1..Len(memory) : IsDigit(memory[i])}
        first == CHOOSE k \in hits : \A j \in hits : k <= j
        run == DigitRunLen(SubSeq(memory, first, Len(memory)))
        matched == DigitsValue(SubSeq(memory, first, first + run - 1))
    IN IF budgetLimit # 0 /\ monthly > budgetLimit
       THEN [tiered EXCEPT
               !.instance.cpu = IF Floored(@) > 1 THEN Floored(@) ELSE 1,
               !.instance.memory =
                   IF hits = {} THEN @
                   ELSE SubSeq(@, 1, first - 1)
                        \o NatToString(IF Floored(matched) > 512
                                        THEN Floored(matched) ELSE 512)
                        \o SubSeq(@, first + run, Len(@)),
               !.estimatedCost.monthly = budgetLimit]
       ELSE tiered

\* the RepositoryAnalysis object as the tool method leaves it.  `{ ...base }` at
\* line 408 copies the top-level properties only: adjusted.instance,
\* adjusted.estimatedCost and adjusted.scaling are the very objects of
\* analysis.strategy.infrastructure, so every assignment of lines 412-435
\* lands in the analysis.  The other tool methods only read the analysis.
AnalysisAfter(toolName, a, analysis) ==
    IF toolName = "mercury_generate_deployment_plan"
    THEN [analysis EXCEPT !.strategy.infrastructure =
              adjustInfrastructureForTier(@, a.performance_tier, a.budget_limit)]
    ELSE analysis

RECURSIVE TotalTime(_)
TotalTime(steps) ==
    IF steps = <<>> THEN 0 ELSE Head(steps).timeout + TotalTime(Tail(steps))

\* the part of a tool method that follows the analysis
ToolTail(toolName, a, analysis) ==
    IF toolName = "mercury_analyze_repository"
    THEN Resolved([analysis |-> analysis])
    ELSE IF toolName = "mercury_generate_deployment_plan"
    THEN Resolved([plan |-> [infrastructure |->
                                LET infrastructure ==
                                        adjustInfrastructureForTier(
                                            analysis.strategy.infrastructure,
                                            a.performance_tier, a.budget_limit)
                                IN [provider |-> "digitalocean",
                                    instance |-> infrastructure.instance,
                                    estimated_cost |-> infrastructure.estimatedCost],
                             deployment |-> [strategy |-> analysis.strategy.type,
                                             steps |-> analysis.strategy.steps,
                                             total_time |-> TotalTime(analysis.strategy.steps)],
                             security |-> [https |-> analysis.strategy.security.https,
                                           required_secrets |-> analysis.strategy.security.secrets]]])
    ELSE IF toolName = "mercury_validate_deployment"
    THEN (IF ~a.deployment_config.defined
          THEN Rejected(TypeError("Cannot read properties of undefined (reading 'infrastructure')"))
          ELSE Resolved([valid |-> TRUE,
                         validations |->
                            IF a.deployment_config.infrastructure
                            THEN <<"cpu_requirements", "memory_requirements">>
                            ELSE <<>>,
                         warnings |->
                            (IF Len(analysis.requirements.services) > 0
                             THEN <<"External services detected - ensure they are configured">>
                             ELSE <<>>)
                            \o (IF a.deployment_config.ssl /\ ~a.deployment_config.domain
                                THEN <<"SSL enabled but no domain specified">>
                                ELSE <<>>),
                         requirements |-> analysis.requirements]))
    ELSE IF toolName = "mercury_estimate_deployment_cost"
    THEN Resolved([cost_estimate |->
                      [base_monthly |-> analysis.strategy.infrastructure.estimatedCost.monthly,
                       duration_months |-> 1,
                       total_cost |-> analysis.strategy.infrastructure.estimatedCost.monthly]])
    ELSE Resolved(SecurityReport(analysis))

\* lines 79-86: { success: true, ...result, tool_name, execution_time }
SuccessRecord(toolName, payload) ==
    [tool_name |-> toolName, execution_time |-> "ms"] @@ payload @@ [success |-> TRUE]

\* a catch block that reports a fixed text in place of error.message
FailureRecord_FixedText(toolName, message) ==
    [success |-> FALSE, error |-> <<"Internal error", "">>, tool_name |-> toolName,
     execution_time |-> "ms"]

\* lines 87-96
FailureRecord(toolName, message) ==
    [success |-> FALSE, error |-> message, tool_name |-> toolName, execution_time |-> "ms"]

----------------------------------------------------------------------------
(* Specification of one handleToolCall *)

ArgsOf(url, config, ids, path, skip, type) ==
    [defined |-> TRUE, repository_url |-> url, deployment_config |-> config,
     ids |-> ids, repository_path |-> path, skip_tests |-> skip, package_type |-> type,
     performance_tier |-> "standard", budget_limit |-> 0]

\* performance_tier: the default, the three cases of the switch, and a value
\* no case matches
PerformanceTiers == {"standard", "basic", "performance", "enterprise", "turbo"}

\* budget_limit: 0 stands for an absent (falsy) limit
BudgetLimits == {0, 12, 48}

\* argument records tried with a tool: only the arguments the tool reads vary
ToolArgs(toolName) ==
    {NoArgs}
    \cup (IF toolName = "mercury_validate_deployment"
          THEN {ArgsOf(u, c, TRUE, "undefined", FALSE, "docker") :
                    u \in UrlKinds,
                    c \in {NoConfig,
                           [defined |-> TRUE, infrastructure |-> TRUE,
                            ssl |-> TRUE, domain |-> FALSE],
                           [defined |-> TRUE, infrastructure |-> FALSE,
                            ssl |-> TRUE, domain |-> TRUE]}}
          ELSE IF toolName = "mercury_generate_deployment_plan"
          THEN {[ArgsOf(u, NoConfig, TRUE, "undefined", FALSE, "docker")
                    EXCEPT !.performance_tier = t, !.budget_limit = b] :
                    u \in UrlKinds, t \in PerformanceTiers, b \in BudgetLimits}
          ELSE IF toolName = "mercury_execute_repository_clone"
          THEN {ArgsOf(u, NoConfig, i, "undefined", FALSE, "docker") :
                    u \in UrlKinds, i \in BOOLEAN}
          ELSE IF toolName = "mercury_execute_repository_test"
          THEN {ArgsOf("undefined", NoConfig, i, rp, sk, "docker") :
                    i \in BOOLEAN, rp \in {"undefined", "string"}, sk \in BOOLEAN}
          ELSE IF toolName = "mercury_execute_repository_package"
          THEN {ArgsOf("undefined", NoConfig, i, rp, FALSE, t) :
                    i \in BOOLEAN, rp \in {"undefined", "string"},
                    t \in {"docker", "zip", "tar", "rpm"}}
          ELSE IF toolName = "mercury_execute_repository_build"
          THEN {ArgsOf("undefined", NoConfig, i, rp, FALSE, "docker") :
                    i \in BOOLEAN, rp \in {"undefined", "string"}}
          ELSE {ArgsOf(u, NoConfig, TRUE, "undefined", FALSE, "docker") : u \in UrlKinds})

\* snapshots an acquisition can produce
ToolSnapshots ==
    {EmptyRepo,
     RepoOf({"package.json"}, JsonOfKind("unparsable"), FALSE),
     RepoOf({"package.json"},
            ObjectWith(<<Entry(Str.next, Text.version1), Entry(Str.redis, Text.version1)>>, <<>>), FALSE),
     RepoOf({"Dockerfile", ".env.example", "requirements.txt"}, EmptyObject, FALSE),
     RepoOf({".env.example"}, EmptyObject, FALSE)}

InitTool ==
    /\ IdleTool
    /\ IdleReq
    /\ IdleAn
    /\ IdleCache

\* handleToolCall(toolName, args) is entered
HandleToolCall ==
    /\ tcPc = "idle"
    /\ \E t \in ToolNames \cup {"mercury_unknown"} : \E a \in ToolArgs(t) :
        /\ tool' = t
        /\ args' = a
        /\ outcome' = EnterTool(t, a)
        /\ tcPc' = IF EnterTool(t, a).state = "pending" THEN EnterTool(t, a).pc ELSE "settled"
    /\ UNCHANGED <<performed, failure, result>>
    /\ UNCHANGED <<varsReq, varsAn, varsCache>>

\* cloneOrUpdateRepository returns a RepositoryInfo for some snapshot
AcquireReturns ==
    /\ tcPc = "acquire"
    /\ performed' = performed \cup {"acquisition"}
    /\ \E r \in ToolSnapshots : snapshot' = r
    /\ tcPc' = "analyze"
    /\ UNCHANGED <<tool, args, failure, outcome, result>>
    /\ UNCHANGED <<varsReq, anPc, leaf, stackResult, depsResult, buildResult, anResult, earlier>>
    /\ UNCHANGED varsCache

\* cloneOrUpdateRepository throws: the git client or the file system failed
AcquireThrows ==
    /\ tcPc = "acquire"
    /\ performed' = performed \cup {"acquisition"}
    /\ failure' = failure \cup {"git: remote unreachable"}
    /\ outcome' = Rejected(<<"Failed to clone/update repository: ", "git: remote unreachable">>)
    /\ tcPc' = "settled"
    /\ UNCHANGED <<tool, args, result>>
    /\ UNCHANGED <<varsReq, varsAn, varsCache>>

\* repositoryService.analyzeRepository, then the rest of the tool method
AnalyzeAndFinish ==
    /\ tcPc = "analyze"
    /\ performed' = performed \cup {"analysis"}
    /\ LET r == analyzeRepository(snapshot)
       IN /\ earlier' = r.value
          /\ anResult' = IF r.threw THEN r.value ELSE AnalysisAfter(tool, args, r.value)
          /\ outcome' = IF r.threw
                        THEN Rejected(<<"Could not read JSON file", "package.json">>)
                        ELSE ToolTail(tool, args, r.value)
    /\ tcPc' = "settled"
    /\ UNCHANGED <<tool, args, failure, result>>
    /\ UNCHANGED <<varsReq, snapshot, anPc, leaf, stackResult, depsResult, buildResult>>
    /\ UNCHANGED varsCache

\* an execute-* method prepares inside its own try block: directories, path
\* checks, command detection, package type
PrepareExecution ==
    /\ tcPc = "prepare"
    /\ \E ok \in BOOLEAN :
        IF ok /\ (tool = "mercury_execute_repository_package"
                     => args.package_type \in {"docker", "zip", "tar"})
        THEN \/ /\ tcPc' = "command"
                /\ UNCHANGED outcome
             \/ /\ tool = "mercury_execute_repository_test"
                /\ outcome' = Resolved(ExecutionRecord("no_tests", <<>>))
                /\ tcPc' = "settled"
        ELSE /\ outcome' = Resolved(ExecutionRecord("failed",
                                <<"preparation failed", tool>>))
             /\ tcPc' = "settled"
    /\ UNCHANGED <<tool, args, performed, failure, result>>
    /\ UNCHANGED <<varsReq, varsAn, varsCache>>

\* the command (git clone, build, test, package) is executed; a failure is
\* caught by the method's own catch block, which returns a record
ExecuteCommand ==
    /\ tcPc = "command"
    /\ performed' = performed \cup {"command"}
    /\ \E ok \in BOOLEAN :
        IF ok
        THEN /\ outcome' = Resolved(ExecutionRecord("completed", <<>>))
             /\ UNCHANGED failure
        ELSE /\ outcome' = Resolved(ExecutionRecord("failed", <<"Command failed: ", "exit 1">>))
             /\ failure' = failure \cup {"exit 1"}
    /\ tcPc' = "settled"
    /\ UNCHANGED <<tool, args, result>>
    /\ UNCHANGED <<varsReq, varsAn, varsCache>>

\* the awaited method resolved: lines 79-86
ReturnSuccess ==
    /\ tcPc = "settled"
    /\ outcome.state = "resolved"
    /\ result' = SuccessRecord(tool, outcome.payload)
    /\ tcPc' = "returned"
    /\ UNCHANGED <<tool, args, performed, failure, outcome>>
    /\ UNCHANGED <<varsReq, varsAn, varsCache>>

\* the awaited method rejected, or the switch threw: lines 87-96
ReturnFailure ==
    /\ tcPc = "settled"
    /\ outcome.state = "rejected"
    /\ result' = FailureRecord(tool, outcome.message)
    /\ tcPc' = "returned"
    /\ UNCHANGED <<tool, args, performed, failure, outcome>>
    /\ UNCHANGED <<varsReq, varsAn, varsCache>>

NextTool ==
    \/ HandleToolCall
    \/ AcquireReturns
    \/ AcquireThrows
    \/ AnalyzeAndFinish
    \/ PrepareExecution
    \/ ExecuteCommand
    \/ ReturnSuccess
    \/ ReturnFailure

SpecTool == InitTool /\ [][NextTool]_vars

----------------------------------------------------------------------------
(* Specification of concurrent cloneOrUpdateRepository calls *)

LocalPathOf(c) == getLocalPath(getRepositoryId(calls[c].url))

\* all calls go through the one RepositoryService, built once (lines 491-495);
\* the cache directory may hold snapshots of an earlier run
InitCache ==
    /\ clock = 0
    /\ gitCwd = ProcessCwd
    /\ dirs \in [LocalPaths ->
                    {NoDirectory, [exists |-> TRUE, mtime |-> 0, branch |-> "main"]}]
    /\ calls = [c \in Calls |-> NoCall]
    /\ IdleReq
    /\ IdleAn
    /\ IdleTool

\* lines 513-518: a call is entered and runs up to its first await
CloneOrUpdateRepository ==
    /\ \E c \in Calls : \E u \in Urls : \E b \in Branches : \E f \in BOOLEAN :
        /\ calls[c].pc = "idle"
        /\ calls' = [calls EXCEPT ![c] =
                        [@ EXCEPT !.pc = "pathExists", !.url = u, !.branch = b,
                                  !.forceRefresh = f]]
    /\ UNCHANGED <<clock, gitCwd, dirs>>
    /\ UNCHANGED <<varsReq, varsAn, varsTool>>

\* pathExists resolves and the age test is entered whatever forceRefresh says
PathExists_IgnoresForceRefresh ==
    /\ \E c \in Calls :
        /\ calls[c].pc = "pathExists"
        /\ LET exists == dirs[LocalPathOf(c)].exists
           IN calls' = [calls EXCEPT ![c] =
                           [@ EXCEPT !.exists = exists,
                                     !.pc = IF exists THEN "stat"
                                            ELSE IF exists THEN "cwd"
                                            ELSE "clone"]]
    /\ UNCHANGED <<clock, gitCwd, dirs>>
    /\ UNCHANGED <<varsReq, varsAn, varsTool>>

\* lines 519-521: pathExists(localPath) resolves
PathExists ==
    /\ \E c \in Calls :
        /\ calls[c].pc = "pathExists"
        /\ LET exists == dirs[LocalPathOf(c)].exists
           IN calls' = [calls EXCEPT ![c] =
                           [@ EXCEPT !.exists = exists,
                                     !.pc = IF exists /\ ~calls[c].forceRefresh THEN "stat"
                                            ELSE IF exists THEN "cwd"
                                            ELSE "clone"]]
    /\ UNCHANGED <<clock, gitCwd, dirs>>
    /\ UNCHANGED <<varsReq, varsAn, varsTool>>

\* lines 523-537: fs.stat resolves and the age of the snapshot is tested
Stat ==
    /\ \E c \in Calls :
        /\ calls[c].pc = "stat"
        /\ LET mtime == dirs[LocalPathOf(c)].mtime
               ageMs == clock - mtime
           IN calls' = [calls EXCEPT ![c] =
                 IF CacheValid(ageMs)
                 THEN [@ EXCEPT !.mtime = mtime, !.now = clock, !.decision = "cached",
                                !.pc = "returned",
                                !.info = RepositoryInfo(calls[c].url, calls[c].branch,
                                                        mtime, mtime + maxAgeMs)]
                 ELSE [@ EXCEPT !.mtime = mtime, !.now = clock, !.decision = "stale",
                                !.pc = "cwd"]]
    /\ UNCHANGED <<clock, gitCwd, dirs>>
    /\ UNCHANGED <<varsReq, varsAn, varsTool>>

\* line 542: this.git.cwd(localPath) sets the working directory of the client
Cwd ==
    /\ \E c \in Calls :
        /\ calls[c].pc = "cwd"
        /\ gitCwd' = LocalPathOf(c)
        /\ calls' = [calls EXCEPT ![c] =
                        [@ EXCEPT !.pc = "fetch",
                                  !.issued = @ \cup {<<"cwd", LocalPathOf(c)>>}]]
    /\ UNCHANGED <<clock, dirs>>
    /\ UNCHANGED <<varsReq, varsAn, varsTool>>

\* line 543: this.git.fetch() runs in the client's working directory
Fetch ==
    /\ \E c \in Calls :
        /\ calls[c].pc = "fetch"
        /\ calls' = [calls EXCEPT ![c] =
                        [@ EXCEPT !.pc = "checkout",
                                  !.issued = @ \cup {<<"fetch", gitCwd>>}]]
    /\ UNCHANGED <<clock, gitCwd, dirs>>
    /\ UNCHANGED <<varsReq, varsAn, varsTool>>

\* line 544: this.git.checkout(branch) runs in the client's working directory
Checkout ==
    /\ \E c \in Calls :
        /\ calls[c].pc = "checkout"
        /\ dirs' = [dirs EXCEPT ![gitCwd].branch = calls[c].branch]
        /\ calls' = [calls EXCEPT ![c] =
                        [@ EXCEPT !.pc = "pull",
                                  !.issued = @ \cup {<<"checkout", gitCwd>>}]]
    /\ UNCHANGED <<clock, gitCwd>>
    /\ UNCHANGED <<varsReq, varsAn, varsTool>>

\* lines 545, 552-560: this.git.pull('origin', branch) runs in the client's
\* working directory; the directory's mtime changes when the pull adds or
\* removes an entry of the directory
Pull ==
    /\ \E c \in Calls :
        /\ calls[c].pc = "pull"
        /\ \E mtime \in {dirs[gitCwd].mtime, clock} :
              dirs' = [dirs EXCEPT ![gitCwd].mtime = mtime]
        /\ calls' = [calls EXCEPT ![c] =
                        [@ EXCEPT !.pc = "returned",
                                  !.issued = @ \cup {<<"pull", gitCwd>>},
                                  !.info = RepositoryInfo(calls[c].url, calls[c].branch,
                                                          clock, clock + maxAgeMs)]]
    /\ UNCHANGED <<clock, gitCwd>>
    /\ UNCHANGED <<varsReq, varsAn, varsTool>>

\* lines 548, 552-562: git clone into localPath; git refuses a destination
\* that exists and is not empty
Clone ==
    /\ \E c \in Calls :
        /\ calls[c].pc = "clone"
        /\ IF dirs[LocalPathOf(c)].exists
           THEN /\ calls' = [calls EXCEPT ![c] =
                               [@ EXCEPT !.pc = "threw",
                                         !.issued = @ \cup {<<"clone", LocalPathOf(c)>>}]]
                /\ UNCHANGED dirs
           ELSE /\ dirs' = [dirs EXCEPT ![LocalPathOf(c)] =
                               [exists |-> TRUE, mtime |-> clock, branch |-> calls[c].branch]]
                /\ calls' = [calls EXCEPT ![c] =
                               [@ EXCEPT !.pc = "returned",
                                         !.issued = @ \cup {<<"clone", LocalPathOf(c)>>},
                                         !.info = RepositoryInfo(calls[c].url, calls[c].branch,
                                                                 clock, clock + maxAgeMs)]]
    /\ UNCHANGED <<clock, gitCwd>>
    /\ UNCHANGED <<varsReq, varsAn, varsTool>>

\* lines 561-563: a git command fails (remote unreachable, unknown branch);
\* the call rejects with 'Failed to clone/update repository: ...'
GitFails ==
    /\ \E c \in Calls :
        /\ calls[c].pc \in {"fetch", "checkout", "pull", "clone"}
        /\ calls' = [calls EXCEPT ![c] =
                        [@ EXCEPT !.pc = "threw",
                                  !.issued = @ \cup {<<calls[c].pc, IF calls[c].pc = "clone"
                                                                    THEN LocalPathOf(c)
                                                                    ELSE gitCwd>>}]]
    /\ UNCHANGED <<clock, gitCwd, dirs>>
    /\ UNCHANGED <<varsReq, varsAn, varsTool>>

\* time passes between the steps of the calls
Tick ==
    /\ \E t \in Instants :
        /\ t > clock
        /\ clock' = t
    /\ UNCHANGED <<gitCwd, dirs, calls>>
    /\ UNCHANGED <<varsReq, varsAn, varsTool>>

NextCache ==
    \/ CloneOrUpdateRepository
    \/ PathExists
    \/ Stat
    \/ Cwd
    \/ Fetch
    \/ Checkout
    \/ Pull
    \/ Clone
    \/ GitFails
    \/ Tick

SpecCache == InitCache /\ [][NextCache]_vars

----------------------------------------------------------------------------
(* C3 *)

\* the version-constraint operators named by the specification
TwoCharOperators == {<<"=", "=">>, <<">", "=">>, <<"<", "=">>, <<"~", "=">>}
OneCharOperators == {">", "<"}

OperatorAt(line, i) ==
    \/ (i + 1 <= Len(line) /\ SubSeq(line, i, i + 1) \in TwoCharOperators)
    \/ line[i] \in OneCharOperators

OperatorLenAt(line, i) ==
    IF i + 1 <= Len(line) /\ SubSeq(line, i, i + 1) \in TwoCharOperators THEN 2 ELSE 1

FirstOperator(line) ==
    LET hits == {i \in 1..Len(line) : OperatorAt(line, i)}
    IN IF hits = {} THEN 0 ELSE CHOOSE i \in hits : \A j \in hits : i <= j

SpecifiedName(line) ==
    LET i == FirstOperator(line)
    IN Trim(IF i = 0 THEN line ELSE SubSeq(line, 1, i - 1))

SpecifiedVersion(line) ==
    LET i == FirstOperator(line)
        right == IF i = 0 THEN <<>>
                 ELSE Trim(SubSeq(line, i + OperatorLenAt(line, i), Len(line)))
    IN IF right = <<>> THEN Str.latest ELSE right

RECURSIVE SpecifiedDeps(_)
SpecifiedDeps(lines) ==
    IF lines = <<>> THEN <<>>
    ELSE (IF SpecifiedName(Head(lines)) # <<>>
          THEN <<[name |-> SpecifiedName(Head(lines)),
                  version |-> SpecifiedVersion(Head(lines)),
                  type |-> "production"]>>
          ELSE <<>>) \o SpecifiedDeps(Tail(lines))

\* C3: every non-empty, non-comment line of requirements.txt is split on the
\* first version-constraint operator; the trimmed left side is the name, the
\* trimmed right side the version ('latest' only when no version is given), so
\* that 'flask==2.0.1' yields exactly {flask, 2.0.1, production}.
\* Stated for listings whose lines are a name, optionally followed by one of
\* the operators and a version (a stray '=' or '~' is no operator).
WellFormedLine(line) ==
    /\ SpecifiedName(line) # <<>>
    /\ FirstOperator(line) = 0 => IndexOfAny(line, OperatorChars) = 0

C3_SplitOnFirstOperator ==
    LET lines == FilterRequirementLines(SplitStr(reqText, <<"\n">>))
    IN (reqPc = "parsed" /\ \A i \in 1..Len(lines) : WellFormedLine(lines[i]))
           => reqDeps = SpecifiedDeps(lines)

----------------------------------------------------------------------------
(* C1 *)

TypeScriptNames == {Str.typescript, Str.types_node}

Declared(json, name) ==
    json.kind = "object" /\ (Has(json.dependencies, name) \/ Has(json.devDependencies, name))

NodeManifestAnalysed ==
    "package.json" \in snapshot.files /\ leaf["detectTechStack"] = "done"

\* C1 as stated: with package.json present the primary tag is 'typescript'
\* exactly when typescript or @types/node is declared, and 'javascript'
\* otherwise, whatever lower-priority manifests are present.
C1_PrimaryIsTypescriptIffDeclared ==
    NodeManifestAnalysed =>
        stackResult.primary =
            IF \E n \in TypeScriptNames : Declared(snapshot.packageJson, n)
            THEN "typescript" ELSE "javascript"

\* the version a name has in the merged map (devDependencies override
\* dependencies); <<>> when the name is in neither
EffectiveVersion(json, name) ==
    IF Has(json.devDependencies, name) THEN Lookup(json.devDependencies, name)
    ELSE IF Has(json.dependencies, name) THEN Lookup(json.dependencies, name)
    ELSE <<>>

\* C1 amended: with package.json present, every TechStack the analysis yields
\* has primary 'javascript' whatever lower-priority manifests are present; the
\* TypeScript signal is carried by the language field, which is 'typescript'
\* exactly when typescript or @types/node has a non-empty version in the merged
\* dependency map, and 'javascript' otherwise.
C1_NodePrimaryIsJavascript ==
    NodeManifestAnalysed =>
        /\ stackResult.primary = "javascript"
        /\ stackResult.language =
              IF \E n \in TypeScriptNames : EffectiveVersion(snapshot.packageJson, n) # <<>>
              THEN "typescript" ELSE "javascript"
        /\ (anPc = "returned" => anResult.techStack = stackResult)

C1_Witness ==
    /\ NodeManifestAnalysed
    /\ anPc = "returned"
    /\ (Manifests \ {"package.json"}) \subseteq snapshot.files
    /\ anResult.techStack.language = "typescript"

----------------------------------------------------------------------------
(* C2 *)

NoDuplicates(xs) == \A i, j \in 1..Len(xs) : i # j => xs[i] # xs[j]

\* C2: the port list of the requirements contains 80 and 443, contains every
\* port of dockerfileAnalysis.exposedPorts, and contains no port twice.
C2_PortsContain80And443AndExposed ==
    anPc = "returned" =>
        LET ports == anResult.requirements.network.ports
            docker == anResult.buildConfig.dockerfileAnalysis
        IN /\ 80 \in Range(ports)
           /\ 443 \in Range(ports)
           /\ docker.defined => Range(docker.exposedPorts) \subseteq Range(ports)
           /\ NoDuplicates(ports)

\* a Dockerfile that exposes a port twice, and 443, and a port of its own
C2_Witness ==
    /\ anPc = "returned"
    /\ anResult.buildConfig.dockerfileAnalysis.defined
    /\ ~NoDuplicates(anResult.buildConfig.dockerfileAnalysis.exposedPorts)
    /\ {443, 3000} \subseteq Range(anResult.buildConfig.dockerfileAnalysis.exposedPorts)

----------------------------------------------------------------------------
(* C4 *)

\* C4: a manifest that cannot be read or parsed (a package.json that is
\* unparsable, or is not a JSON object) counts as absent; analyzeRepository
\* still returns a RepositoryAnalysis and never rejects.
C4_ManifestFailureNeverRejects ==
    /\ anPc # "threw"
    /\ \A l \in Leaves : leaf[l] # "threw"

----------------------------------------------------------------------------
(* C5 *)

\* C5: whenever the acquisition or the execution of a command failed during
\* a tool call, the record handleToolCall returns is a failure result:
\* success = false, and no such call returns success = true.
C5_CollaboratorFailureIsFailureResult ==
    (tcPc = "returned" /\ failure # {}) => result.success = FALSE

----------------------------------------------------------------------------
(* C6 *)

ToolCallPositions ==
    {"idle", "acquire", "analyze", "prepare", "command", "settled", "returned"}

\* C6: handleToolCall never throws.  Every call, whatever the tool name and
\* the argument record, ends with a returned record: when the tool method
\* rejected (or the name is unknown) the record has success = false, error =
\* the fault's message, tool_name = the requested name and execution_time;
\* when the tool method resolved the record has success = true with the same
\* tool_name and execution_time fields.
C6_FaultsBecomeFailureRecords ==
    /\ tcPc \in ToolCallPositions
    /\ tcPc = "settled" => outcome.state \in {"resolved", "rejected"}
    /\ tcPc = "returned" =>
        /\ result.tool_name = tool
        /\ result.execution_time = "ms"
        /\ outcome.state = "rejected" =>
              /\ result.success = FALSE
              /\ result.error = outcome.message
        /\ outcome.state = "resolved" =>
              /\ result.success = TRUE
              /\ \A k \in DOMAIN outcome.payload : result[k] = outcome.payload[k]
        /\ tool \notin ToolNames =>
              /\ result.success = FALSE
              /\ result.error = <<"Unknown tool: ", tool>>

\* a call that ended in the catch block after a collaborator had been called
C6_Witness ==
    /\ tcPc = "returned"
    /\ tool = "mercury_validate_deployment"
    /\ performed = {"acquisition", "analysis"}
    /\ outcome.state = "rejected"
    /\ result.success = FALSE

----------------------------------------------------------------------------
(* C7 *)

\* the required arguments of a tool are missing or malformed
InvalidArguments(toolName, a) ==
    /\ toolName \in AnalysisTools \cup ExecuteTools
    /\ \/ ~a.defined
       \/ toolName \in AnalysisTools /\ a.repository_url # "string"
       \/ toolName = "mercury_validate_deployment" /\ ~a.deployment_config.defined
       \/ toolName = "mercury_execute_repository_clone"
             /\ (a.repository_url # "string" \/ ~a.ids)
       \/ toolName \in ExecuteTools \ {"mercury_execute_repository_clone"}
             /\ (a.repository_path = "undefined" \/ ~a.ids)

\* C7: a tool call whose required arguments are missing or malformed is
\* rejected with a failure result before any acquisition, analysis or command
\* execution step is performed.
C7_InvalidArgumentsRejectedFirst ==
    /\ InvalidArguments(tool, args) => performed = {}
    /\ (tcPc = "returned" /\ InvalidArguments(tool, args)) => result.success = FALSE

----------------------------------------------------------------------------
(* C8 *)

\* a call that found its snapshot directory and was not told to refresh, and
\* has passed the age test of lines 523-537
AgeTested(c) ==
    /\ calls[c].decision # "none"
    /\ calls[c].exists
    /\ ~calls[c].forceRefresh

GitOperations == {"fetch", "checkout", "pull", "clone"}

NoGitOperation(c) == \A op \in calls[c].issued : op[1] \notin GitOperations \cup {"cwd"}

\* C8 as stated: with forceRefresh = false and an existing snapshot, the
\* snapshot is treated as stale, and re-acquired, exactly when
\* now > snapshot time + 1 hour; at every now <= expiry, now = expiry
\* included, the cached snapshot is returned without any git operation.
C8_StaleExactlyAfterExpiry ==
    \A c \in Calls :
        AgeTested(c) =>
            /\ calls[c].decision = "stale" <=> calls[c].now > calls[c].mtime + maxAgeMs
            /\ calls[c].now <= calls[c].mtime + maxAgeMs =>
                   /\ calls[c].pc = "returned"
                   /\ NoGitOperation(c)

\* C8 amended: with forceRefresh = false and an existing snapshot, the
\* snapshot is treated as stale, and re-acquired, exactly when
\* now >= snapshot time + 1 hour; at every now < expiry the cached snapshot
\* is returned without any git operation, with lastAnalyzed = snapshot time
\* and cacheExpiry = snapshot time + 1 hour.
C8_StaleFromExpiryOn ==
    \A c \in Calls :
        AgeTested(c) =>
            /\ calls[c].decision = "stale" <=> calls[c].now >= calls[c].mtime + maxAgeMs
            /\ calls[c].decision = "stale" => calls[c].pc # "returned" \/ ~NoGitOperation(c)
            /\ calls[c].now < calls[c].mtime + maxAgeMs =>
                   /\ calls[c].decision = "cached"
                   /\ calls[c].pc = "returned"
                   /\ NoGitOperation(c)
                   /\ calls[c].info.lastAnalyzed = calls[c].mtime
                   /\ calls[c].info.cacheExpiry = calls[c].mtime + maxAgeMs

\* a snapshot re-acquired at the instant of its expiry, and one returned from
\* the cache one millisecond before it
C8_Witness ==
    \E c, d \in Calls :
        /\ AgeTested(c)
        /\ calls[c].now = calls[c].mtime + maxAgeMs
        /\ calls[c].pc = "returned"
        /\ <<"pull", LocalPathOf(c)>> \in calls[c].issued
        /\ AgeTested(d)
        /\ calls[d].now = calls[d].mtime + maxAgeMs - 1
        /\ calls[d].pc = "returned"

----------------------------------------------------------------------------
(* C9 *)

\* the call is between the first and the last command of its update
Updating(c) == calls[c].pc \in {"fetch", "checkout", "pull"}

ClonedAfterMissing(c) ==
    /\ ~calls[c].exists
    /\ <<"clone", LocalPathOf(c)>> \in calls[c].issued

\* C9: the acquisition steps of two concurrent calls on the same repository
\* URL are serialized: never do both calls observe the directory as missing
\* and both clone into it, and never are both in the middle of their
\* fetch/checkout/pull on it.
C9_SameUrlAcquisitionsSerialized ==
    \A c, d \in Calls :
        (c # d /\ calls[c].pc # "idle" /\ calls[d].pc # "idle"
               /\ calls[c].url = calls[d].url) =>
            /\ ~(ClonedAfterMissing(c) /\ ClonedAfterMissing(d))
            /\ ~(Updating(c) /\ Updating(d))

----------------------------------------------------------------------------
(* C10 *)

\* C10: when two calls on different repository URLs are in flight, every
\* fetch, checkout and pull of a call executes against that call's own
\* snapshot directory.
C10_GitCommandsRunInOwnDirectory ==
    \A c, d \in Calls :
        (c # d /\ calls[c].pc # "idle" /\ calls[d].pc # "idle"
               /\ calls[c].url # calls[d].url) =>
            \A op \in calls[c].issued :
                op[1] \in {"fetch", "checkout", "pull"} => op[2] = LocalPathOf(c)

----------------------------------------------------------------------------
(* C11 *)

\* C11: for every tech stack, dependency list and build configuration the
\* computed confidence is an integer with 50 <= confidence <= 95.
C11_ConfidenceBetween50And95 ==
    anPc = "returned" =>
        /\ anResult.confidence \in Int
        /\ 50 <= anResult.confidence
        /\ anResult.confidence <= 95

\* an analysis in which every signal is present, so that the deltas add up
\* to more than the cap
C11_Witness ==
    /\ anPc = "returned"
    /\ anResult.techStack.primary # "unknown"
    /\ anResult.techStack.framework \notin {Undefined, "none"}
    /\ anResult.buildConfig.hasDockerfile
    /\ anResult.buildConfig.startScript # <<>>
    /\ Len(anResult.dependencies) > 0
    /\ anResult.confidence = 95

----------------------------------------------------------------------------
(* C12 *)

\* the branches of the decision list, in priority order: the marker files
\* of each and the primary tag its analyzer gives
StackBranches ==
    <<[markers |-> {"package.json"}, primary |-> "javascript"],
      [markers |-> {"requirements.txt", "app.py", "main.py"}, primary |-> "python"],
      [markers |-> {"Gemfile"}, primary |-> "ruby"],
      [markers |-> {"go.mod"}, primary |-> "go"],
      [markers |-> {"pom.xml"}, primary |-> "java"],
      [markers |-> {"Cargo.toml"}, primary |-> "rust"],
      [markers |-> {"composer.json"}, primary |-> "php"]>>

MatchingBranches(files) ==
    {i \in 1..Len(StackBranches) : StackBranches[i].markers \cap files # {}}

\* C12: stack classification is an exclusive first-match decision list in
\* the priority package.json, Python markers (requirements.txt, app.py or
\* main.py), Gemfile, go.mod, pom.xml, Cargo.toml, composer.json, and then
\* the fallback (HTML files give 'static', otherwise 'unknown'): the
\* TechStack is the one of the highest-priority branch whose marker is
\* present, and no other branch is tried.
C12_FirstMatchingBranchDecides ==
    LET matching == MatchingBranches(snapshot.files)
        first == CHOOSE i \in matching : \A j \in matching : i <= j
    IN /\ leaf["detectTechStack"] = "done" =>
            stackResult.primary =
                IF matching # {} THEN StackBranches[first].primary
                ELSE IF snapshot.html THEN "static"
                ELSE "unknown"
       /\ leaf["detectTechStack"] = "threw" => "package.json" \in snapshot.files

\* only main.py marks the Python branch, and every lower-priority manifest
\* is present beside it
C12_Witness ==
    /\ leaf["detectTechStack"] = "done"
    /\ snapshot.files =
          {"main.py", "Gemfile", "go.mod", "pom.xml", "Cargo.toml", "composer.json"}
    /\ snapshot.html
    /\ stackResult.primary = "python"

----------------------------------------------------------------------------
(* C13 *)

\* C13: the type, approach and step list of the deployment strategy are
\* determined by hasDockerfile and the runtime tag: with a Dockerfile type
\* 'container', approach 'docker' and 6 steps; without one type 'server',
\* approach 'pm2' for runtime 'nodejs' and 'systemd' for every other runtime,
\* and 7 steps for 'nodejs', 8 for 'python', 5 for any other runtime.
C13_StrategyByDockerfileAndRuntime ==
    anPc = "returned" =>
        LET strategy == anResult.strategy
            runtime == anResult.techStack.runtime
        IN IF anResult.buildConfig.hasDockerfile
           THEN /\ strategy.type = "container"
                /\ strategy.approach = "docker"
                /\ Len(strategy.steps) = 6
           ELSE /\ strategy.type = "server"
                /\ strategy.approach = (IF runtime = "nodejs" THEN "pm2" ELSE "systemd")
                /\ Len(strategy.steps) =
                      (IF runtime = "nodejs" THEN 7 ELSE IF runtime = "python" THEN 8 ELSE 5)

\* the scenario of the specification: only a package.json that declares
\* react and has build, start and test scripts, and no Dockerfile
C13_Witness ==
    /\ anPc = "returned"
    /\ snapshot.files = {"package.json"}
    /\ snapshot.packageJson =
          WithScripts(ObjectWith(<<Entry(Str.react, Text.version1)>>, <<>>),
                      Text.npm, Text.npm, Text.npm)
    /\ anResult.techStack.primary = "javascript"
    /\ anResult.techStack.framework = "react"
    /\ ~anResult.buildConfig.hasDockerfile
    /\ anResult.strategy.type = "server"
    /\ anResult.strategy.approach = "pm2"
    /\ Len(anResult.strategy.steps) = 7

----------------------------------------------------------------------------
(* C14 *)

----------------------------------------------------------------------------
(* C15 *)

\* C15: a RepositoryAnalysis is never mutated after analyzeRepository returns
\* it: when a derived query (deployment plan with any performance_tier and
\* budget_limit, cost estimate, validation, security report) has run, the
\* analysis object still equals the record analyzeRepository returned, its
\* strategy.infrastructure included.
C15_AnalysisNeverMutated ==
    (tcPc # "idle" /\ "analysis" \in performed /\ earlier.defined) =>
        anResult = earlier

----------------------------------------------------------------------------
(* C16 *)

\* 1 for a signal that is present, 0 for one that is absent
Signal(present) == IF present THEN 1 ELSE 0

\* C16: confidence = min(95, 50 + 20*[primary is not 'unknown']
\* + 15*[framework is known] + 15*[hasDockerfile] + 10*[start script present]
\* + 10*[at least one dependency]); and a directory with no manifest, no
\* Python entry file, no HTML and no Dockerfile gives primary 'unknown' and
\* confidence exactly 50.
C16_ConfidenceIsCappedSumOfDeltas ==
    anPc = "returned" =>
        LET sum == 50
                   + 20 * Signal(anResult.techStack.primary # "unknown")
                   + 15 * Signal(anResult.techStack.framework \notin {Undefined, "none"})
                   + 15 * Signal(anResult.buildConfig.hasDockerfile)
                   + 10 * Signal(anResult.buildConfig.startScript # <<>>)
                   + 10 * Signal(anResult.dependencies # <<>>)
        IN /\ anResult.confidence = IF sum > 95 THEN 95 ELSE sum
           /\ (/\ snapshot.files \cap (Manifests \cup {"app.py", "main.py", "Dockerfile"}) = {}
               /\ ~snapshot.html)
              => /\ anResult.techStack.primary = "unknown"
                 /\ anResult.confidence = 50

\* a Dockerfile beside a manifest that declares nothing: the stack is known
\* and the Dockerfile is present, while framework, start script and
\* dependencies are absent: 50 + 20 + 15
C16_Witness ==
    /\ anPc = "returned"
    /\ anResult.techStack.primary # "unknown"
    /\ anResult.techStack.framework \in {Undefined, "none"}
    /\ anResult.buildConfig.hasDockerfile
    /\ anResult.buildConfig.startScript = <<>>
    /\ anResult.dependencies = <<>>
    /\ anResult.confidence = 85

----------------------------------------------------------------------------
(* C17 *)

\* a size string of at least four gigabytes: a leading number of 4 or more,
\* with the unit GB
AtLeast4GB(size) ==
    /\ EndsWith(size, <<"G", "B">>)
    /\ ~ParseInt(size).nan
    /\ ParseInt(size).value >= 4

\* the row of the three-tier table for a Requirements value
TierRow(requirements) ==
    IF AtLeast4GB(requirements.memory.recommended)
    THEN [type |-> "basic-2vcpu-4gb", monthly |-> 48]
    ELSE IF requirements.cpu.recommended >= 4
    THEN [type |-> "basic-4vcpu-8gb", monthly |-> 96]
    ELSE [type |-> "basic-1vcpu-2gb", monthly |-> 24]

\* C17: for every Requirements value the calculator produces, the dependency
\* surcharge included, the recommendation follows the three-tier table:
\* recommended memory >= 4GB gives basic-2vcpu-4gb at 48 a month, otherwise
\* recommended CPU >= 4 gives basic-4vcpu-8gb at 96, otherwise basic-1vcpu-2gb
\* at 24; and the cost breakdown is the instance cost and a 0-cost bandwidth.
C17_RecommendationFollowsTierTable ==
    anPc = "returned" =>
        LET infrastructure == anResult.strategy.infrastructure
            row == TierRow(anResult.requirements)
        IN /\ infrastructure.instance.type = row.type
           /\ infrastructure.estimatedCost.monthly = row.monthly
           /\ infrastructure.estimatedCost.breakdown =
                  <<[component |-> "Droplet", cost |-> row.monthly],
                    [component |-> "Bandwidth", cost |-> 0]>>

----------------------------------------------------------------------------
(* C18 *)

\* the cpu and memory figures of the table for a stack
TableValue(techStack) ==
    IF \/ techStack.primary = "java"
       \/ (/\ techStack.primary \in {"javascript", "typescript"}
           /\ techStack.framework \in {"nextjs", "nuxt"})
    THEN [cpu |-> [min |-> 2, recommended |-> 4],
          memory |-> [min |-> <<"2", "G", "B">>, recommended |-> <<"4", "G", "B">>]]
    ELSE IF techStack.primary \in {"javascript", "typescript"}
    THEN [cpu |-> [min |-> 1, recommended |-> 1],
          memory |-> [min |-> <<"1", "G", "B">>, recommended |-> <<"2", "G", "B">>]]
    ELSE IF techStack.primary = "python" /\ techStack.framework = "django"
    THEN [cpu |-> [min |-> 2, recommended |-> 2],
          memory |-> [min |-> <<"1", "G", "B">>, recommended |-> <<"2", "G", "B">>]]
    ELSE [cpu |-> [min |-> 1, recommended |-> 1],
          memory |-> [min |-> <<"5", "1", "2", "M", "B">>, recommended |-> <<"1", "G", "B">>]]

\* one and a half times a recommended figure of the table, unit kept
OneAndAHalfTimes(size) ==
    CASE size = <<"1", "G", "B">> -> <<"1", ".", "5", "G", "B">>
      [] size = <<"2", "G", "B">> -> <<"3", "G", "B">>
      [] size = <<"4", "G", "B">> -> <<"6", "G", "B">>

\* C18: the recommended memory is the table value multiplied by 1.5, unit
\* suffix kept, exactly when there are more than 50 dependencies; with 50 or
\* fewer it is the table value; memory.min and cpu are the table values
\* whatever the dependency count.
C18_SurchargeExactlyAbove50 ==
    anPc = "returned" =>
        LET table == TableValue(anResult.techStack)
            requirements == anResult.requirements
        IN /\ requirements.cpu = table.cpu
           /\ requirements.memory.min = table.memory.min
           /\ requirements.memory.recommended =
                  IF Len(anResult.dependencies) > 50
                  THEN OneAndAHalfTimes(table.memory.recommended)
                  ELSE table.memory.recommended

\* 51 dependencies in a plain Node.js project: 2GB becomes 3GB
C18_Witness ==
    /\ anPc = "returned"
    /\ Len(anResult.dependencies) = 51
    /\ anResult.requirements.memory = [min |-> <<"1", "G", "B">>, recommended |-> <<"3", "G", "B">>]
    /\ anResult.requirements.cpu = [min |-> 1, recommended |-> 1]

----------------------------------------------------------------------------
(* C19 *)

\* the names of the lookup table
ServiceTable ==
    {<<"m", "y", "s", "q", "l">>, <<"m", "y", "s", "q", "l", "2">>, <<"p", "g">>,
     <<"p", "o", "s", "t", "g", "r", "e", "s">>, <<"m", "o", "n", "g", "o", "d", "b">>,
     <<"m", "o", "n", "g", "o", "o", "s", "e">>, <<"r", "e", "d", "i", "s">>,
     <<"s", "q", "l", "i", "t", "e", "3">>}

\* the dependencies whose name, in lower case, is in the table
RECURSIVE Matched(_)
Matched(dependencies) ==
    IF dependencies = <<>> THEN <<>>
    ELSE (IF ToLowerCase(Head(dependencies).name) \in ServiceTable
          THEN <<Head(dependencies)>> ELSE <<>>)
         \o Matched(Tail(dependencies))

\* C19: the services are those of the dependencies whose name matches the
\* table case-insensitively, one service per matched dependency in order and
\* none for the others; a service is a 'cache' when the name contains
\* 'redis' and a 'database' otherwise, and is required iff the dependency's
\* declared type is 'production'.
C19_ServicesFromLookupTable ==
    anPc = "returned" =>
        LET matched == Matched(anResult.dependencies)
            services == anResult.requirements.services
        IN /\ Len(services) = Len(matched)
           /\ \A i \in 1..Len(matched) :
                /\ services[i].type =
                       IF Includes(ToLowerCase(matched[i].name), <<"r", "e", "d", "i", "s">>)
                       THEN "cache" ELSE "database"
                /\ services[i].required = (matched[i].type = "production")

\* 'Redis' declared in devDependencies beside 'mysql2' in dependencies: a
\* required database and a cache that is not required
C19_Witness ==
    /\ anPc = "returned"
    /\ Len(anResult.dependencies) = 2
    /\ anResult.dependencies[2].name = <<"R", "e", "d", "i", "s">>
    /\ anResult.requirements.services =
          <<[name |-> <<"m", "y", "s", "q", "l">>, type |-> "database", required |-> TRUE],
            [name |-> <<"r", "e", "d", "i", "s">>, type |-> "cache", required |-> FALSE]>>

----------------------------------------------------------------------------
(* C20 *)

\* the words of the naming heuristic
SensitiveWords ==
    {<<"p", "a", "s", "s", "w", "o", "r", "d">>, <<"s", "e", "c", "r", "e", "t">>,
     <<"k", "e", "y">>}

\* the names of the variables flagged sensitive, in order
RECURSIVE NamesFlagged(_)
NamesFlagged(envs) ==
    IF envs = <<>> THEN <<>>
    ELSE (IF Head(envs).sensitive THEN <<Head(envs).name>> ELSE <<>>)
         \o NamesFlagged(Tail(envs))

\* C20: every environment variable read from the example-env file is flagged
\* sensitive iff its name, in lower case, contains 'password', 'secret' or
\* 'key'; and strategy.security.secrets is exactly the list of the names of
\* the variables flagged sensitive.
C20_SensitiveIffNameHasWord ==
    anPc = "returned" =>
        LET envs == anResult.buildConfig.environmentVariables
        IN /\ \A i \in 1..Len(envs) :
                envs[i].sensitive <=>
                    \E word \in SensitiveWords : Includes(ToLowerCase(envs[i].name), word)
           /\ anResult.strategy.security.secrets = NamesFlagged(envs)

\* 'PassWord_Key=' and 'user=secret': the first name is flagged whatever its
\* case, the second is not although its value holds a word of the test
C20_Witness ==
    /\ anPc = "returned"
    /\ Len(anResult.buildConfig.environmentVariables) = 2
    /\ anResult.buildConfig.environmentVariables[1].sensitive
    /\ ~anResult.buildConfig.environmentVariables[2].sensitive
    /\ anResult.buildConfig.environmentVariables[2].name = <<"u", "s", "e", "r">>
    /\ anResult.strategy.security.secrets =
          <<<<"P", "a", "s", "s", "W", "o", "r", "d", "_", "K", "e", "y">>>>

----------------------------------------------------------------------------
(* C21 *)

\* the variable of one line when it is split on its first '=' only
FirstEqualsVariable(line) ==
    LET i == IndexOf(line, <<"=">>)
        name == IF i = 0 THEN line ELSE SubSeq(line, 1, i - 1)
    IN IF Trim(line) # <<>> /\ ~StartsWith(line, <<"#">>) /\ name # <<>>
       THEN <<[name |-> Trim(name),
               hasDefault |-> i # 0,
               defaultValue |-> IF i = 0 THEN <<>>
                                ELSE Trim(SubSeq(line, i + 1, Len(line)))]>>
       ELSE <<>>

RECURSIVE FirstEqualsVariables(_)
FirstEqualsVariables(lines) ==
    IF lines = <<>> THEN <<>>
    ELSE FirstEqualsVariable(Head(lines)) \o FirstEqualsVariables(Tail(lines))

\* C21: each non-comment, non-empty line of the example-env file is split on
\* its first '=' only: the name is the text before it and the default value
\* is all of the trimmed text after it, so a value containing '=' is kept
\* whole.
C21_SplitOnFirstEquals ==
    (anPc = "returned" /\ ".env.example" \in snapshot.files) =>
        LET envs == anResult.buildConfig.environmentVariables
            specified == FirstEqualsVariables(
                             SplitStr(snapshot.text[".env.example"], <<"\n">>))
        IN /\ Len(envs) = Len(specified)
           /\ \A i \in 1..Len(specified) :
                /\ envs[i].name = specified[i].name
                /\ envs[i].hasDefault = specified[i].hasDefault
                /\ envs[i].defaultValue = specified[i].defaultValue

----------------------------------------------------------------------------
(* C22 *)

\* the trimmed FROM lines of a Dockerfile, in order
RECURSIVE FromLines(_)
FromLines(lines) ==
    IF lines = <<>> THEN <<>>
    ELSE (IF StartsWith(Trim(Head(lines)), <<"F", "R", "O", "M", " ">>)
          THEN <<Trim(Head(lines))>> ELSE <<>>)
         \o FromLines(Tail(lines))

\* C22: Dockerfile analysis sets baseImage from a FROM line, and multiStage is
\* true exactly when more than one FROM line occurs or an 'as' alias is
\* present on a FROM line; 'FROM node:18', 'EXPOSE 3000', 'WORKDIR /app' gives
\* baseImage 'node:18', exposedPorts [3000] and multiStage = false.
C22_MultiStageIffSeveralFromOrAlias ==
    (anPc = "returned" /\ anResult.buildConfig.dockerfileAnalysis.defined) =>
        LET analysis == anResult.buildConfig.dockerfileAnalysis
            content == snapshot.text["Dockerfile"]
            from == FromLines(SplitStr(content, <<"\n">>))
        IN /\ analysis.hasBaseImage <=> from # <<>>
           /\ analysis.hasBaseImage =>
                \E i \in 1..Len(from) : analysis.baseImage = SplitStr(from[i], <<" ">>)[2]
           /\ analysis.multiStage <=>
                \/ Len(from) > 1
                \/ \E i \in 1..Len(from) : Includes(from[i], <<" ", "a", "s", " ">>)
           /\ content = Text.node18 =>
                /\ analysis.baseImage = <<"n", "o", "d", "e", ":", "1", "8">>
                /\ analysis.exposedPorts = <<3000>>
                /\ ~analysis.multiStage

----------------------------------------------------------------------------
(* C23 *)

\* C23: in every deployment strategy returned (container, nodejs, python,
\* default) the order fields of the step list are exactly 1, 2, ..., n in
\* list position order, with no gap and no repeat.
C23_StepOrdersAreContiguous ==
    anPc = "returned" =>
        LET steps == anResult.strategy.steps
        IN /\ Len(steps) >= 1
           /\ \A i \in 1..Len(steps) : steps[i].order = i

\* the python list, the longest of the four
C23_Witness ==
    /\ anPc = "returned"
    /\ anResult.techStack.runtime = "python"
    /\ anResult.strategy.type = "server"
    /\ Len(anResult.strategy.steps) = 8
    /\ anResult.strategy.steps[8].order = 8

----------------------------------------------------------------------------
(* C24 *)

\* C24: for every Requirements value the calculator returns, cpu.min and
\* cpu.recommended are positive integers with cpu.min <= cpu.recommended,
\* whatever the stack, framework and dependency count.
C24_CpuPositiveAndOrdered ==
    anPc = "returned" =>
        LET cpu == anResult.requirements.cpu
        IN /\ cpu.min \in Nat \ {0}
           /\ cpu.recommended \in Nat \ {0}
           /\ cpu.min <= cpu.recommended

\* a django project: the one row of the table with min = recommended = 2
C24_Witness ==
    /\ anPc = "returned"
    /\ anResult.techStack.framework = "django"
    /\ anResult.requirements.cpu = [min |-> 2, recommended |-> 2]

----------------------------------------------------------------------------
(* C25 *)

\* the message when its condition holds, nothing otherwise
When(condition, message) == IF condition THEN <<message>> ELSE <<>>

\* C25: the warnings are exactly the sub-sequence, in this order, of four
\* messages whose conditions hold, each evaluated on its own: primary is
\* 'unknown'; no Dockerfile and no start script; zero dependencies; some
\* sensitive environment variable without a default value.
C25_WarningsAreTheFourChecks ==
    anPc = "returned" =>
        LET buildConfig == anResult.buildConfig
            envs == buildConfig.environmentVariables
        IN anResult.warnings =
              When(anResult.techStack.primary = "unknown",
                   "Could not determine primary technology stack")
              \o When(~buildConfig.hasDockerfile /\ buildConfig.startScript = <<>>,
                      "No Dockerfile or start script found - may require manual configuration")
              \o When(anResult.dependencies = <<>>,
                      "No dependencies detected - analysis may be incomplete")
              \o When(\E i \in 1..Len(envs) :
                          envs[i].sensitive /\ envs[i].defaultValue = <<>>,
                      "Sensitive environment variables detected without defaults")

\* an example-env file naming a key without a value in a directory with
\* nothing else: all four conditions hold at once
C25_Witness ==
    /\ anPc = "returned"
    /\ Len(anResult.warnings) = 4
    /\ anResult.warnings[1] = "Could not determine primary technology stack"
    /\ anResult.warnings[4] = "Sensitive environment variables detected without defaults"

----------------------------------------------------------------------------
(* C26 *)

\* C26: every recommendations list ends with the three baseline
\* recommendations (TLS, backups, monitoring) in that order, preceded by
\* exactly those of the three conditional recommendations whose conditions
\* hold: no Dockerfile; runtime 'nodejs' with no dependency named pm2; no test
\* script.  The list has between 3 and 6 entries.
C26_RecommendationsEndWithBaseline ==
    anPc = "returned" =>
        LET buildConfig == anResult.buildConfig
            dependencies == anResult.dependencies
        IN /\ anResult.recommendations =
                 When(~buildConfig.hasDockerfile,
                      "Consider adding a Dockerfile for consistent deployments")
                 \o When(/\ anResult.techStack.runtime = "nodejs"
                         /\ \A i \in 1..Len(dependencies) :
                                dependencies[i].name # <<"p", "m", "2">>,
                         "Consider using PM2 for Node.js process management")
                 \o When(buildConfig.testScript = <<>>,
                         "Add automated tests to improve deployment confidence")
                 \o <<"Set up SSL/TLS certificate for HTTPS encryption",
                      "Configure automated backups for data protection",
                      "Implement monitoring and alerting for production readiness">>
           /\ Len(anResult.recommendations) \in 3..6

\* a Node.js project that declares pm2 and a test script and has no
\* Dockerfile: one conditional recommendation before the baseline
C26_Witness ==
    /\ anPc = "returned"
    /\ anResult.techStack.runtime = "nodejs"
    /\ \E i \in 1..Len(anResult.dependencies) :
          anResult.dependencies[i].name = <<"p", "m", "2">>
    /\ anResult.buildConfig.testScript # <<>>
    /\ Len(anResult.recommendations) = 4
    /\ anResult.recommendations[1] = "Consider adding a Dockerfile for consistent deployments"

----------------------------------------------------------------------------
(* C27 *)

\* C27: whenever a cloneOrUpdateRepository call returns, the branch reported
\* in its RepositoryInfo is the branch checked out in the snapshot directory
\* it returns; in particular a fresh cache hit for one branch never returns a
\* snapshot acquired for another.
C27_ReportedBranchIsCheckedOut ==
    [][\A c \in Calls :
          (calls[c].pc # "returned" /\ calls'[c].pc = "returned") =>
              calls'[c].info.branch = dirs'[LocalPathOf(c)].branch]_vars

----------------------------------------------------------------------------
(* C28 *)

\* a size string in megabytes: its leading number, times 1024 for the unit GB
MegaBytes(size) ==
    ParseInt(size).value * (IF EndsWith(size, <<"G", "B">>) THEN 1024 ELSE 1)

\* C28: when a budget_limit is given to generate-deployment-plan, for every
\* performance tier and base recommendation the returned estimated monthly
\* cost is <= budget_limit, and the budget constraint never makes the
\* returned instance cpu or memory larger than the tier-adjusted value.
C28_BudgetNeverRaisesResources ==
    (/\ tool = "mercury_generate_deployment_plan"
     /\ outcome.state = "resolved"
     /\ args.budget_limit > 0) =>
        LET returned == outcome.payload.plan.infrastructure
            tiered == adjustInfrastructureForTier(earlier.strategy.infrastructure,
                                                  args.performance_tier, 0)
        IN /\ returned.estimated_cost.monthly <= args.budget_limit
           /\ returned.instance.cpu <= tiered.instance.cpu
           /\ MegaBytes(returned.instance.memory) <= MegaBytes(tiered.instance.memory)

----------------------------------------------------------------------------
(* C29 *)

\* the names of the git operations a call has issued
OperationsOf(call) == {op[1] : op \in call.issued}

\* C29: a call with forceRefresh = true never takes the cached snapshot: it
\* returns only after fetch, checkout and pull when it found the snapshot
\* directory, after clone when it did not, whatever the snapshot's age, with
\* lastAnalyzed = now and cacheExpiry = now + 1 hour; a call that returns the
\* cached snapshot has performed no git operation and returns
\* cacheExpiry = lastAnalyzed + 1 hour.
C29_ForceRefreshAlwaysAcquires ==
    [][\A c \in Calls :
          (calls[c].pc # "returned" /\ calls'[c].pc = "returned") =>
              /\ calls[c].forceRefresh =>
                    /\ calls'[c].decision # "cached"
                    /\ IF calls[c].exists
                       THEN {"fetch", "checkout", "pull"} \subseteq OperationsOf(calls'[c])
                       ELSE "clone" \in OperationsOf(calls'[c])
                    /\ calls'[c].info.lastAnalyzed = clock
                    /\ calls'[c].info.cacheExpiry = clock + 60 * 60 * 1000
              /\ calls'[c].decision = "cached" =>
                    /\ OperationsOf(calls'[c]) = {}
                    /\ calls'[c].info.cacheExpiry =
                          calls'[c].info.lastAnalyzed + 60 * 60 * 1000]_vars

\* a forced call that has updated a snapshot directory acquired at this very
\* instant, and another call that got the same directory from the cache
C29_Witness ==
    \E c, d \in Calls :
        /\ calls[c].pc = "returned"
        /\ calls[c].forceRefresh
        /\ calls[c].exists
        /\ "pull" \in OperationsOf(calls[c])
        /\ calls[c].info.lastAnalyzed = dirs[LocalPathOf(c)].mtime
        /\ calls[d].pc = "returned"
        /\ calls[d].decision = "cached"
        /\ calls[d].url = calls[c].url

----------------------------------------------------------------------------
(* C30 *)

\* the sum of the counts of a by_severity record
RECURSIVE SumOfCounts(_)
SumOfCounts(counts) ==
    IF DOMAIN counts = {} THEN 0
    ELSE LET sev == CHOOSE x \in DOMAIN counts : TRUE
         IN counts[sev] + SumOfCounts([x \in DOMAIN counts \ {sev} |-> counts[x]])

\* C30: in every security report summary.total is the number of listed
\* vulnerabilities and the sum of the by_severity counts; SEC-001 is listed
\* iff there is no Dockerfile, SEC-002 iff some sensitive environment variable
\* has no default, SEC-003 never, and critical_count is 0.
C30_SecurityReportSummary ==
    (tool = "mercury_detect_security_issues" /\ outcome.state = "resolved") =>
        LET report == outcome.payload.security_report
            listed == {report.vulnerabilities[i].id : i \in 1..Len(report.vulnerabilities)}
            envs == earlier.buildConfig.environmentVariables
        IN /\ report.summary.total = Len(report.vulnerabilities)
           /\ report.summary.total = SumOfCounts(report.summary.by_severity)
           /\ Cardinality(listed) = Len(report.vulnerabilities)
           /\ "SEC-001" \in listed <=> ~earlier.buildConfig.hasDockerfile
           /\ "SEC-002" \in listed <=>
                 \E i \in 1..Len(envs) : envs[i].sensitive /\ envs[i].defaultValue = <<>>
           /\ "SEC-003" \notin listed
           /\ report.summary.critical_count = 0
           /\ earlier.strategy.security.https

\* a repository with an example-env file naming a key without a value and no
\* Dockerfile: SEC-001 and SEC-002 are listed
C30_Witness ==
    /\ tool = "mercury_detect_security_issues"
    /\ outcome.state = "resolved"
    /\ outcome.payload.security_report.summary.total = 2
    /\ outcome.payload.security_report.vulnerabilities[1].id = "SEC-001"
    /\ outcome.payload.security_report.vulnerabilities[2].id = "SEC-002"

====
